---- MODULE Spec2Model ----
(***************************************************************************)
(* Model of the WPK/IDX archive reader of NeoXtractor:                     *)
(*   core/wpk/wpk_file.py    WPKFile (index table, entry cache, resolver,  *)
(*                           extraction driver)                            *)
(*   core/wpk/class_types.py WPKIndex, WPKEntry, WPKEntryDataFlags         *)
(*   gui/widgets/wpk_file_list.py  the rename dialog                       *)
(*   gui/models/wpk_file_model.py  the list model's filename cache         *)
(*   gui/windows/main_window.py    the background bulk load and its cancel *)
(*   core/detection.py, core/args.py  the sniffer and the CLI path pairing *)
(*                                                                         *)
(* Ordinals are 0-based as in the code.  The index table is a function     *)
(* over 0..count-1, the entry cache a function whose domain is the set of  *)
(* cached ordinals (the keys of the dict WPKFile.entries).  A byte string  *)
(* is a sequence of symbolic bytes; the data flags, an IntFlag in the      *)
(* code, are the set of the bits that are set, so that |= is set union.    *)
(***************************************************************************)
EXTENDS Integers, Sequences, FiniteSets, TLC

VARIABLES
    key,        \* WPKFile.options.decryption_key: << >> is None, <<k>> is k
    indices,    \* WPKFile.indices: ordinal -> index record
    entries,    \* WPKFile.entries: cached ordinal -> resolved entry
    loads,      \* ordinal -> number of times _load_entry_data ran for it
    ret,        \* outcome of the last call: what it returned or raised,
                \* whether it opened the data file, the file writes it made
    pc,         \* thread -> position inside read_entry (concurrent use)
    targ,       \* thread -> ordinal it is resolving
    tentry,     \* thread -> its local variable `entry`
    file_names_cache,   \* WPKFileModel._file_names_cache: row -> filename
    cancelled,  \* the external cancellation request (MainWindow._loading_cancelled)
    job,        \* the aggregate operation in progress and its loop position
    cli,        \* the command line, the files it names, the paths it opens
    idx_file,   \* the index file handed to WPKFile.__init__
    gui         \* the main window and its WPK list view: the archives held,
                \* the state of the menu actions, of the lists and of the loader

vars == <<key, indices, entries, loads, ret, pc, targ, tentry,
          file_names_cache, cancelled, job, cli, idx_file, gui>>

----------------------------------------------------------------------------
(* Bounds of the model *)

\* largest record count of an index file
MaxCount == 2

\* cap on the per-ordinal count of pipeline runs
MaxLoads == 2

\* number of threads of control calling read_entry concurrently
NThreads == 2

\* largest length in bytes of a file given to the sniffer
MaxFileLen == 5

----------------------------------------------------------------------------
(* Enumerations and defaults *)

FlagBits == {"TEXT", "NXS3_PACKED", "ROTOR_PACKED", "ENCRYPTED", "ERROR"}

\* the content of the data file: one byte string
WpkData == <<"Z", "R", "N", "t", "b">>

\* a decryption key is absent, zero or non-zero
Keys == {<< >>, <<0>>, <<1>>}

\* WPKIndex(): the dataclass defaults
DefaultIndex ==
    [filename |-> "", file_offset |-> 0, file_length |-> 0,
     file_original_length |-> 0, zip_flag |-> "NONE", encrypt_flag |-> "NONE",
     data_flags |-> {}]

\* WPKEntry(): the index defaults plus data, extension, category
NewEntry ==
    [filename |-> "", file_offset |-> 0, file_length |-> 0,
     file_original_length |-> 0, zip_flag |-> "NONE", encrypt_flag |-> "NONE",
     data_flags |-> {}, data |-> << >>, extension |-> "", category |-> "OTHER"]

\* the attributes of an index record, which read_entry copies onto the entry
IndexAttrs == DOMAIN DefaultIndex

\* filenames the index file gives to ordinals 0, 1, 2, ...
IndexNames == <<"f", "f.txt", "g", "g.txt", "h">>

\* names typed into the rename dialog ("" is the empty input)
NewNames == {"", "n"}

\* (offset, length, compression tag, encryption tag) of the records an index
\* file may hold; the windows cover a compressed stream with both secondary
\* layers, a corrupt stream, plain text, an encrypted stream that the zero key
\* leaves intact and the other key turns corrupt, and a window that runs past
\* the end of the data file
SampleRecords ==
    { [file_offset |-> 3, file_length |-> 1, zip_flag |-> "NONE", encrypt_flag |-> "NONE"],
      [file_offset |-> 0, file_length |-> 4, zip_flag |-> "ZLIB", encrypt_flag |-> "NONE"],
      [file_offset |-> 2, file_length |-> 2, zip_flag |-> "ZLIB", encrypt_flag |-> "NONE"],
      [file_offset |-> 4, file_length |-> 2, zip_flag |-> "NONE", encrypt_flag |-> "NONE"],
      [file_offset |-> 0, file_length |-> 2, zip_flag |-> "ZLIB", encrypt_flag |-> "XOR"] }

Min(a, b) == IF a < b THEN a ELSE b

----------------------------------------------------------------------------
(* The external decode primitives, by their contract *)

\* decrypt: a byte substitution under a non-zero key, the identity under 0
DecryptByte(b, k) ==
    IF k = 0 THEN b
    ELSE CASE b = "N" -> "Z"
           [] b = "Z" -> "N"
           [] OTHER -> b

\* decrypt_entry rejects its input when no key is configured
DecryptFails(k) == k = << >>

decrypt_entry(data, k) == [i \in 1..Len(data) |-> DecryptByte(data[i], k[1])]

\* decompress_entry rejects a stream that does not start with the stream header
DecompressFails(data) == Len(data) = 0 \/ data[1] # "Z"

decompress_entry(data) == Tail(data)

check_rotor(data) == Len(data) > 0 /\ data[1] = "R"

unpack_rotor(data) == Tail(data)

check_nxs3(data) == Len(data) > 0 /\ data[1] = "N"

unpack_nxs3(data) == Tail(data)

is_binary(data) == \E i \in 1..Len(data) : data[i] = "b"

get_ext(data, flags) == IF "TEXT" \in flags THEN "txt" ELSE ""

get_file_category(ext) == IF ext = "txt" THEN "TEXT" ELSE "OTHER"

----------------------------------------------------------------------------
(* The data file *)

\* the read made without the seek
FileReadFromStart(file, offset, length) ==
    SubSeq(file, 1, Min(length, Len(file)))

\* file.seek(offset); file.read(length): the bytes from offset, at most
\* length of them, fewer when the file ends first
FileRead(file, offset, length) ==
    SubSeq(file, offset + 1, Min(offset + length, Len(file)))

----------------------------------------------------------------------------
(* WPKFile._load_entry_data.  The pipeline works on w = [entry, raised,
   failed, stages, handle]: the entry being filled, whether an exception left
   the call, which primitive rejected the bytes ("" for none), the log of the
   primitives called so far, in call order, and the state of the handle of
   the data file the caller opened. *)

Called(w, name) == [w EXCEPT !.stages = Append(@, name)]

\* the branch taken for every configured key, zero included
DecompressFailureFlagsAnyKey(k) ==
    IF k # << >> THEN {"ENCRYPTED"} ELSE {"ERROR"}

\* the ERROR flag set on either branch
DecompressFailureFlagsBoth(k) ==
    IF k # << >> /\ k[1] # 0 THEN {"ENCRYPTED", "ERROR"} ELSE {"ERROR"}

\* the except branch of the primary decompression: the flags the failure sets
DecompressFailureFlags(k) ==
    IF k # << >> /\ k[1] # 0 THEN {"ENCRYPTED"} ELSE {"ERROR"}

\* stage 6: classification
ClassifyStage(w) ==
    LET w1 == IF ~is_binary(w.entry.data)
              THEN [w EXCEPT !.entry.data_flags = @ \cup {"TEXT"}]
              ELSE w
        ext == get_ext(w1.entry.data, w1.entry.data_flags)
    IN  [w1 EXCEPT !.entry.extension = ext,
                   !.entry.category = get_file_category(ext),
                   !.stages = @ \o <<"is_binary", "get_ext", "get_file_category">>]

\* stage 5: nxs3 check and unpack, then stage 6
Nxs3Stage(w) ==
    IF check_nxs3(w.entry.data)
    THEN ClassifyStage([w EXCEPT !.entry.data_flags = @ \cup {"NXS3_PACKED"},
                                 !.entry.data = unpack_nxs3(@),
                                 !.stages = @ \o <<"check_nxs3", "unpack_nxs3">>])
    ELSE ClassifyStage(Called(w, "check_nxs3"))

\* the two secondary layers taken in the other order: nxs3 first, then rotor
RotorStageNxs3First(w) ==
    LET n == IF check_nxs3(w.entry.data)
             THEN [w EXCEPT !.entry.data_flags = @ \cup {"NXS3_PACKED"},
                            !.entry.data = unpack_nxs3(@),
                            !.stages = @ \o <<"check_nxs3", "unpack_nxs3">>]
             ELSE Called(w, "check_nxs3")
    IN  IF check_rotor(n.entry.data)
        THEN ClassifyStage([n EXCEPT !.entry.data_flags = @ \cup {"ROTOR_PACKED"},
                                     !.entry.data = unpack_rotor(@),
                                     !.stages = @ \o <<"check_rotor", "unpack_rotor">>])
        ELSE ClassifyStage(Called(n, "check_rotor"))

\* stage 4: rotor check and unpack, then stage 5
RotorStage(w) ==
    IF check_rotor(w.entry.data)
    THEN Nxs3Stage([w EXCEPT !.entry.data_flags = @ \cup {"ROTOR_PACKED"},
                             !.entry.data = unpack_rotor(@),
                             !.stages = @ \o <<"check_rotor", "unpack_rotor">>])
    ELSE Nxs3Stage(Called(w, "check_rotor"))

\* a decompression failure that sets its flag and lets the later stages run
DecompressStageContinue(w, k) ==
    IF w.entry.zip_flag # "NONE"
    THEN IF DecompressFails(w.entry.data)
         THEN RotorStage([w EXCEPT !.entry.data_flags = @ \cup DecompressFailureFlags(k),
                                   !.failed = "decompress_entry",
                                   !.stages = Append(@, "decompress_entry")])
         ELSE RotorStage([w EXCEPT !.entry.data = decompress_entry(@),
                                   !.stages = Append(@, "decompress_entry")])
    ELSE RotorStage(w)

\* stage 3: primary decompression; a failure sets a flag and returns
DecompressStage(w, k) ==
    IF w.entry.zip_flag # "NONE"
    THEN IF DecompressFails(w.entry.data)
         THEN [w EXCEPT !.entry.data_flags = @ \cup DecompressFailureFlags(k),
                        !.failed = "decompress_entry",
                        !.stages = Append(@, "decompress_entry")]
         ELSE RotorStage([w EXCEPT !.entry.data = decompress_entry(@),
                                   !.stages = Append(@, "decompress_entry")])
    ELSE RotorStage(w)

\* a decryption that marks every entry it decrypted as ENCRYPTED
DecryptStageFlagged(w, k) ==
    IF w.entry.encrypt_flag # "NONE"
    THEN IF DecryptFails(k)
         THEN [w EXCEPT !.raised = TRUE, !.failed = "decrypt_entry",
                        !.stages = Append(@, "decrypt_entry")]
         ELSE DecompressStage([w EXCEPT !.entry.data = decrypt_entry(@, k),
                                        !.entry.data_flags = @ \cup {"ENCRYPTED"},
                                        !.stages = Append(@, "decrypt_entry")], k)
    ELSE DecompressStage(w, k)

\* stage 2: decryption, called outside any try block: its exception leaves
\* _load_entry_data and read_entry
DecryptStage(w, k) ==
    IF w.entry.encrypt_flag # "NONE"
    THEN IF DecryptFails(k)
         THEN [w EXCEPT !.raised = TRUE, !.failed = "decrypt_entry",
                        !.stages = Append(@, "decrypt_entry")]
         ELSE DecompressStage([w EXCEPT !.entry.data = decrypt_entry(@, k),
                                        !.stages = Append(@, "decrypt_entry")], k)
    ELSE DecompressStage(w, k)

\* stage 1: file.seek(entry.file_offset); entry.data = file.read(entry.file_length)
ReadStage(entry, file) ==
    [entry |-> [entry EXCEPT !.data = FileRead(file, entry.file_offset, entry.file_length)],
     raised |-> FALSE, failed |-> "", stages |-> <<"read">>, handle |-> "open"]

\* the whole pipeline on the opened data file
LoadEntryData(entry, k, file) == DecryptStage(ReadStage(entry, file), k)

----------------------------------------------------------------------------
(* WPKFile.read_entry *)

\* a with block that is left by an exception keeping its file open
WithExitLeak(w) == IF w.raised THEN w ELSE [w EXCEPT !.handle = "closed"]

\* the end of `with open(self.wpk_path, "rb") as file`: the handle is closed
\* when the block is left, by its last statement or by an exception
WithExit(w) == [w EXCEPT !.handle = "closed"]

Count(idx) == Cardinality(DOMAIN idx)

ValidOrdinal(idx, index) == 0 <= index /\ index < Count(idx)

\* for attr in vars(idx): setattr(entry, attr, getattr(idx, attr))
CopyIndex(rec) ==
    [a \in DOMAIN NewEntry |-> IF a \in IndexAttrs THEN rec[a] ELSE NewEntry[a]]

\* if entry.extension: entry.filename = f"{entry.filename}.{entry.extension}"
SuffixName(entry) ==
    IF entry.extension # ""
    THEN [entry EXCEPT !.filename = entry.filename \o "." \o entry.extension]
    ELSE entry

\* self.entries[index] = entry
CacheStore(ents, index, entry) == (index :> entry) @@ ents

\* read_entry without its cache test
CacheHitNever(ents, index) == FALSE

\* if index in self.entries: return self.entries[index]
CacheHit(ents, index) == index \in DOMAIN ents

\* def is_entry_loaded(self, index): return index in self.entries
is_entry_loaded(ents, index) == index \in DOMAIN ents

\* what a call that ran no pipeline reports
NoLoad(ents, lds, kind, exc, entry) ==
    [entries |-> ents, loads |-> lds, kind |-> kind, exc |-> exc, entry |-> entry,
     opened |-> FALSE, loaded |-> FALSE, failed |-> "", stages |-> << >>,
     handle |-> "none"]

\* the placeholder stored in the cache before it is returned
OutOfRangeCached(ents, lds, index) ==
    NoLoad(CacheStore(ents, index, [NewEntry EXCEPT !.data_flags = @ \cup {"ERROR"}]),
           lds, "entry", "", [NewEntry EXCEPT !.data_flags = @ \cup {"ERROR"}])

\* lines 81-85: the placeholder of an out-of-range ordinal, returned uncached
OutOfRange(ents, lds, index) ==
    NoLoad(ents, lds, "entry", "", [NewEntry EXCEPT !.data_flags = @ \cup {"ERROR"}])

\* the cache store made before the data file is opened
OpenFailedCached(ents, lds, index, entry) ==
    NoLoad(CacheStore(ents, index, entry), lds, "raise", "OSError", NewEntry)

\* line 91 when open() fails: the exception leaves read_entry, the entry
\* built so far is dropped
OpenFailed(ents, lds, index, entry) ==
    NoLoad(ents, lds, "raise", "OSError", NewEntry)

\* lines 94-98 with the pipeline's result w: suffix, store, return
StoreAndReturn(ents, lds, index, w, e) ==
    [entries |-> CacheStore(ents, index, e), loads |-> lds, kind |-> "entry",
     exc |-> "", entry |-> e, opened |-> TRUE, loaded |-> TRUE,
     failed |-> w.failed, stages |-> w.stages, handle |-> w.handle]

\* lines 91-98 with the pipeline's outcome w: an exception of the pipeline
\* leaves read_entry before the cache store
AfterLoad(ents, lds, index, w) ==
    IF w.raised
    THEN [entries |-> ents, loads |-> lds, kind |-> "raise", exc |-> "DecryptError",
          entry |-> NewEntry, opened |-> TRUE, loaded |-> TRUE,
          failed |-> w.failed, stages |-> w.stages, handle |-> w.handle]
    ELSE StoreAndReturn(ents, lds, index, w, SuffixName(w.entry))

\* One call of read_entry on the container state (idx, ents, lds) with key k.
\* ioOK says whether open(self.wpk_path) succeeds.  The result names the new
\* cache and load counts, and what the call did: kind is "entry" (returned)
\* or "raise", opened whether the data file was opened, loaded whether the
\* pipeline ran, failed and stages what the pipeline reported.
ReadEntryCall(idx, ents, lds, k, index, ioOK) ==
    IF CacheHit(ents, index)
    THEN NoLoad(ents, lds, "entry", "", ents[index])
    ELSE IF ~ValidOrdinal(idx, index)
    THEN OutOfRange(ents, lds, index)
    ELSE IF ~ioOK
    THEN OpenFailed(ents, lds, index, CopyIndex(idx[index]))
    ELSE AfterLoad(ents, [lds EXCEPT ![index] = @ + 1], index,
                   WithExit(LoadEntryData(CopyIndex(idx[index]), k, WpkData)))

----------------------------------------------------------------------------
(* WPKEntry.save_to_file and WPKFile.extract_all *)

\* the file created and nothing written to it
SaveToFileNoWrite(files, path, data) == (path :> << >>) @@ files

\* a write that leaves an existing file of that path as it is
SaveToFileKeepFirst(files, path, data) == files @@ (path :> data)

\* os.makedirs(dirname(path), exist_ok=True); open(path, "wb"); f.write(data):
\* the directory after the write, an existing file of that path replaced
SaveToFile(files, path, data) == (path :> data) @@ files

\* os.path.join(output_dir, entry.filename), relative to output_dir
JoinPath(filename) == filename

\* the loop skipping the entries flagged ERROR or ENCRYPTED
ExtractOneSkipFailed(st, i, r) ==
    IF r.kind = "raise"
    THEN [st EXCEPT !.entries = r.entries, !.loads = r.loads,
                    !.kind = "raise", !.exc = r.exc,
                    !.opened = @ \/ r.opened,
                    !.handle = IF @ = "open" \/ r.handle = "none" THEN @ ELSE r.handle]
    ELSE IF r.entry.data_flags \cap {"ERROR", "ENCRYPTED"} # {}
    THEN [st EXCEPT !.entries = r.entries, !.loads = r.loads, !.at = i + 1,
                    !.opened = @ \/ r.opened,
                    !.handle = IF @ = "open" \/ r.handle = "none" THEN @ ELSE r.handle]
    ELSE [st EXCEPT !.entries = r.entries, !.loads = r.loads, !.at = i + 1,
                    !.opened = @ \/ r.opened,
                    !.handle = IF @ = "open" \/ r.handle = "none" THEN @ ELSE r.handle,
                    !.writes = Append(@, [ordinal |-> i,
                                          path |-> JoinPath(r.entry.filename),
                                          data |-> r.entry.data]),
                    !.files = SaveToFile(@, JoinPath(r.entry.filename), r.entry.data)]

\* path = os.path.join(output_dir, entry.filename); entry.save_to_file(path),
\* for ordinal i whose read_entry call gave r, in the loop state st.
\* st.writes is the log of the file writes made so far, st.files the output
\* directory, st.at the number of ordinals fully processed, st.opened whether
\* the data file was opened, st.handle what became of the handles opened
\* ("open" as soon as one was left open).  An exception of read_entry ends
\* the loop.
ExtractOne(st, i, r) ==
    IF r.kind = "raise"
    THEN [st EXCEPT !.entries = r.entries, !.loads = r.loads,
                    !.kind = "raise", !.exc = r.exc,
                    !.opened = @ \/ r.opened,
                    !.handle = IF @ = "open" \/ r.handle = "none" THEN @ ELSE r.handle]
    ELSE [st EXCEPT !.entries = r.entries, !.loads = r.loads, !.at = i + 1,
                    !.opened = @ \/ r.opened,
                    !.handle = IF @ = "open" \/ r.handle = "none" THEN @ ELSE r.handle,
                    !.writes = Append(@, [ordinal |-> i,
                                          path |-> JoinPath(r.entry.filename),
                                          data |-> r.entry.data]),
                    !.files = SaveToFile(@, JoinPath(r.entry.filename), r.entry.data)]

\* a loop that goes on to the next ordinal after a resolution raised
ExtractStepContinue(idx, k, failAt, st, i) ==
    ExtractOne(st, i, ReadEntryCall(idx, st.entries, st.loads, k, i,
                                    i < failAt \/ st.kind = "raise"))

\* One iteration of the loop of extract_all, for ordinal i, from the state st
\* the earlier iterations left.  The data file can be opened for the ordinals
\* below failAt and no longer from failAt on.
ExtractStep(idx, k, failAt, st, i) ==
    IF st.kind = "raise"
    THEN st
    ELSE ExtractOne(st, i, ReadEntryCall(idx, st.entries, st.loads, k, i, i < failAt))

\* the loop state before the first iteration, the output directory empty
ExtractStart(ents, lds) ==
    [entries |-> ents, loads |-> lds, kind |-> "done", exc |-> "",
     at |-> 0, writes |-> << >>, files |-> << >>, opened |-> FALSE,
     handle |-> "none"]

\* the loop running one ordinal past the last record
ExtractAllCallOneMore(idx, ents, lds, k, failAt) ==
    LET after[n \in 0..(Count(idx) + 1)] ==
            IF n = 0 THEN ExtractStart(ents, lds)
            ELSE ExtractStep(idx, k, failAt, after[n - 1], n - 1)
    IN  after[Count(idx) + 1]

\* extract_all(output_dir): for i in range(len(self.indices)), ascending
ExtractAllCall(idx, ents, lds, k, failAt) ==
    LET after[n \in 0..Count(idx)] ==
            IF n = 0 THEN ExtractStart(ents, lds)
            ELSE ExtractStep(idx, k, failAt, after[n - 1], n - 1)
    IN  after[Count(idx)]

----------------------------------------------------------------------------
(* WPKFileList.show_rename_dialog *)

\* the rename applied to every record of the table
RenameIndexAll(idx, row, name) ==
    [r \in DOMAIN idx |-> [idx[r] EXCEPT !.filename = name]]

\* the rename adding a record to the table
RenameIndexAppend(idx, row, name) ==
    (Count(idx) :> [DefaultIndex EXCEPT !.filename = name]) @@ idx

\* the rename dropping the cached entry of the row
RenameCachedEvict(ents, row, name) ==
    [o \in DOMAIN ents \ {row} |-> ents[o]]

\* the rename leaving the cached entry of the row as it is
RenameCachedKeep(ents, row, name) == ents

\* entry_index.filename = new_name
RenameIndex(idx, row, name) == [idx EXCEPT ![row].filename = name]

\* if index.row() in wpk_file.entries: entries[row].filename = new_name
RenameCached(ents, row, name) ==
    IF row \in DOMAIN ents THEN [ents EXCEPT ![row].filename = name] ELSE ents

----------------------------------------------------------------------------
(* WPKFileModel.get_filename over the class-level _file_names_cache *)

\* get_filename(index, invalidate_cache) on a model of the index table idx:
\* the cache after the call and the filename returned
GetFilenameCall(cache, idx, row, invalidate_cache) ==
    IF ~ValidOrdinal(idx, row)
    THEN [cache |-> cache, filename |-> ""]
    ELSE IF row \in DOMAIN cache /\ ~invalidate_cache
    THEN [cache |-> cache, filename |-> cache[row]]
    ELSE [cache |-> (row :> idx[row].filename) @@ cache,
          filename |-> idx[row].filename]

----------------------------------------------------------------------------
(* The state after construction and the operations *)

Threads == 1..NThreads

\* what data() returns when it returns None
NoValue == [text |-> "", icon |-> "", record |-> DefaultIndex]

NoCall ==
    [op |-> "open", index |-> 0, kind |-> "done", exc |-> "", entry |-> NewEntry,
     opened |-> FALSE, loaded |-> FALSE, failed |-> "", stages |-> << >>,
     at |-> 0, writes |-> << >>, files |-> << >>, handle |-> "none",
     role |-> "", value |-> NoValue]

\* no aggregate operation in progress
NoJob == [op |-> "none", at |-> 0, phase |-> "idle", count |-> 0,
          resolved |-> {}, complete |-> 0]

\* MainWindow.__init__ and WPKFileList.__init__: nothing loaded, the NPK list
\* current, 'Open IDX/WPK' enabled, 'Unload WPK' disabled, both lists
\* enabled, no selection remembered (-1 is None), nothing emitted
NoGui ==
    [wpk_file |-> FALSE, wpk_model |-> FALSE, npk_file |-> FALSE,
     list_widget |-> "npk",
     open_wpk_enabled |-> TRUE, unload_wpk_enabled |-> FALSE,
     open_file_enabled |-> TRUE,
     npk_disabled |-> FALSE, wpk_disabled |-> FALSE,
     select_after_enabled |-> 0 - 1, previews |-> << >>, opens |-> << >>,
     pending |-> << >>, updates |-> {}]

\* no command line parsed: no argument, no file, no path opened
NoCli == [path |-> << >>, wpk_path |-> << >>, files |-> << >>,
          detected |-> "none", idx_path |-> << >>, data_path |-> << >>,
          raised |-> FALSE, parsed |-> FALSE]

\* core.npk.enums.CompressionType and DecryptionType: the values of the two
\* enumerations; the conversion of any other value raises ValueError
CompressionTypeValues == (0 :> "NONE") @@ (1 :> "ZLIB")

DecryptionTypeValues == (0 :> "NONE") @@ (1 :> "XOR")

\* the u16 an index file holds for a member of an enumeration
EncodeTag(values, name) == CHOOSE v \in DOMAIN values : values[v] = name

\* an index file: the u32 count and the records that follow it
NoIndexFile == [count |-> 0, records |-> << >>]

\* the record of the index file that _read_indices turns into MakeIndex(name, rec)
RawRecord(name, rec) ==
    [filename |-> name, file_offset |-> rec.file_offset,
     file_length |-> rec.file_length, file_original_length |-> rec.file_length,
     zip_flag |-> EncodeTag(CompressionTypeValues, rec.zip_flag),
     encrypt_flag |-> EncodeTag(DecryptionTypeValues, rec.encrypt_flag)]

\* the loop of _read_indices letting a record with an unknown tag pass, the
\* tag taken as NONE
ReadIndexRecordLenient(st, raw) ==
    IF st.kind = "raise"
    THEN st
    ELSE [st EXCEPT
            !.indices = (st.at :>
                [DefaultIndex EXCEPT
                    !.filename = raw.filename,
                    !.file_offset = raw.file_offset,
                    !.file_length = raw.file_length,
                    !.file_original_length = raw.file_original_length,
                    !.zip_flag = IF raw.zip_flag \in DOMAIN CompressionTypeValues
                                 THEN CompressionTypeValues[raw.zip_flag] ELSE "NONE",
                    !.encrypt_flag = IF raw.encrypt_flag \in DOMAIN DecryptionTypeValues
                                     THEN DecryptionTypeValues[raw.encrypt_flag] ELSE "NONE"])
                @@ st.indices,
            !.at = @ + 1]

\* lines 61-69: one iteration of the loop of _read_indices on the record raw,
\* from the loop state st = [indices, kind, exc, at].  The conversion of an
\* unknown tag raises, which ends the loop with the table as built so far.
ReadIndexRecord(st, raw) ==
    IF st.kind = "raise"
    THEN st
    ELSE IF raw.zip_flag \notin DOMAIN CompressionTypeValues
    THEN [st EXCEPT !.kind = "raise", !.exc = "ValueError"]
    ELSE IF raw.encrypt_flag \notin DOMAIN DecryptionTypeValues
    THEN [st EXCEPT !.kind = "raise", !.exc = "ValueError"]
    ELSE [st EXCEPT
            !.indices = (st.at :>
                [DefaultIndex EXCEPT
                    !.filename = raw.filename,
                    !.file_offset = raw.file_offset,
                    !.file_length = raw.file_length,
                    !.file_original_length = raw.file_original_length,
                    !.zip_flag = CompressionTypeValues[raw.zip_flag],
                    !.encrypt_flag = DecryptionTypeValues[raw.encrypt_flag]])
                @@ st.indices,
            !.at = @ + 1]

\* _read_indices on the index file: the count, then one record per iteration
ReadIndices(file) ==
    LET after[n \in 0..file.count] ==
            IF n = 0
            THEN [indices |-> << >>, kind |-> "done", exc |-> "", at |-> 0]
            ELSE ReadIndexRecord(after[n - 1], file.records[n])
    IN  after[file.count]

\* the record _read_indices builds for one record of the index file
MakeIndex(name, rec) ==
    [DefaultIndex EXCEPT !.filename = name,
                         !.file_offset = rec.file_offset,
                         !.file_length = rec.file_length,
                         !.file_original_length = rec.file_length,
                         !.zip_flag = rec.zip_flag,
                         !.encrypt_flag = rec.encrypt_flag]

\* the index files: up to MaxCount records, no record listed twice, listed in
\* the order of their offsets in the data file
IndexFiles ==
    UNION { { shape \in [0..(n - 1) -> SampleRecords] :
                \A i, j \in 0..(n - 1) :
                    i < j => /\ shape[i] # shape[j]
                             /\ shape[i].file_offset <= shape[j].file_offset } :
            n \in 0..MaxCount }

\* WPKFile.__init__: the index file is parsed, nothing is resolved
Init ==
    /\ key \in Keys
    /\ \E shape \in IndexFiles :
         LET n == Cardinality(DOMAIN shape) IN
            /\ indices = [i \in 0..(n - 1) |-> MakeIndex(IndexNames[i + 1], shape[i])]
            /\ loads = [i \in 0..(n - 1) |-> 0]
            /\ idx_file = [count |-> n,
                           records |-> [i \in 1..n |-> RawRecord(IndexNames[i], shape[i - 1])]]
    /\ entries = << >>
    /\ ret = NoCall
    /\ pc = [t \in Threads |-> "idle"]
    /\ targ = [t \in Threads |-> 0]
    /\ tentry = [t \in Threads |-> NewEntry]
    /\ file_names_cache = << >>
    /\ cancelled = FALSE
    /\ job = NoJob
    /\ cli = NoCli
    /\ gui = NoGui

WithinLoads(lds) == \A o \in DOMAIN lds : lds[o] <= MaxLoads

\* the ordinals a caller may pass: the valid ones and one on either side
Requests == (0 - 1)..Count(indices)

\* a read_entry whose entry is the index record itself rather than a copy of
\* its attributes: the suffixed filename shows in the index table
ReadEntryDoneAliased(index, r) ==
    /\ WithinLoads(r.loads)
    /\ entries' = r.entries
    /\ loads' = r.loads
    /\ indices' = IF r.loaded /\ r.kind = "entry"
                  THEN [indices EXCEPT ![index].filename = r.entry.filename]
                  ELSE indices
    /\ ret' = [NoCall EXCEPT !.op = "read_entry", !.index = index,
                             !.kind = r.kind, !.exc = r.exc, !.entry = r.entry,
                             !.opened = r.opened, !.loaded = r.loaded,
                             !.failed = r.failed, !.stages = r.stages,
                             !.handle = r.handle]
    /\ UNCHANGED <<key, pc, targ, tentry,
                   file_names_cache, cancelled, job, cli,
                   idx_file, gui>>

\* the container and the caller after a read_entry call with outcome r
ReadEntryDone(index, r) ==
    /\ WithinLoads(r.loads)
    /\ entries' = r.entries
    /\ loads' = r.loads
    /\ ret' = [NoCall EXCEPT !.op = "read_entry", !.index = index,
                             !.kind = r.kind, !.exc = r.exc, !.entry = r.entry,
                             !.opened = r.opened, !.loaded = r.loaded,
                             !.failed = r.failed, !.stages = r.stages,
                             !.handle = r.handle]
    /\ UNCHANGED <<key, indices, pc, targ, tentry,
                   file_names_cache, cancelled, job, cli,
                   idx_file, gui>>

\* read_entry(index), called from one thread of control
ReadEntry(index, ioOK) ==
    ReadEntryDone(index, ReadEntryCall(indices, entries, loads, key, index, ioOK))

\* the container and the caller after an extract_all call with outcome r
ExtractAllDone(r) ==
    /\ WithinLoads(r.loads)
    /\ entries' = r.entries
    /\ loads' = r.loads
    /\ ret' = [NoCall EXCEPT !.op = "extract_all", !.kind = r.kind,
                             !.exc = r.exc, !.at = r.at, !.opened = r.opened,
                             !.handle = r.handle,
                             !.writes = r.writes, !.files = r.files]
    /\ UNCHANGED <<key, indices, pc, targ, tentry,
                   file_names_cache, cancelled, job, cli,
                   idx_file, gui>>

\* extract_all(output_dir)
ExtractAll(failAt) ==
    ExtractAllDone(ExtractAllCall(indices, entries, loads, key, failAt))

\* the rename dialog after its prompt, which looked the filename up and left
\* the filename cache as `prompted`
RenameDone(row, name, ok, prompted) ==
    /\ IF ok /\ name # ""
       THEN /\ indices' = RenameIndex(indices, row, name)
            /\ entries' = RenameCached(entries, row, name)
            /\ file_names_cache' =
                   GetFilenameCall(prompted, RenameIndex(indices, row, name), row, TRUE).cache
       ELSE /\ file_names_cache' = prompted
            /\ UNCHANGED <<indices, entries>>
    /\ ret' = [NoCall EXCEPT !.op = "rename", !.index = row]
    /\ UNCHANGED <<key, loads, pc, targ, tentry, cancelled, job, cli,
                   idx_file, gui>>

\* the rename dialog on row `row`: ok is the dialog's button, name its text
Rename(row, name, ok) ==
    RenameDone(row, name, ok, GetFilenameCall(file_names_cache, indices, row, FALSE).cache)

Next ==
    \/ \E index \in Requests, ioOK \in BOOLEAN : ReadEntry(index, ioOK)
    \/ \E failAt \in 0..Count(indices) : ExtractAll(failAt)
    \/ \E row \in DOMAIN indices, name \in NewNames, ok \in BOOLEAN : Rename(row, name, ok)

Spec == Init /\ [][Next]_vars

----------------------------------------------------------------------------
(* read_entry called from several threads of control.  The interpreter may
   switch threads between the cache test, the open/decode and the cache
   store; nothing in read_entry holds a lock.  A thread's locals (targ,
   tentry) are reset when its call ends. *)

\* a resolve that puts the entry into the cache as soon as the index record
\* is copied, before the data file is read
T_CheckStoreEarly(t, index) ==
    /\ pc[t] = "idle"
    /\ ~CacheHit(entries, index)
    /\ ValidOrdinal(indices, index)
    /\ pc' = [pc EXCEPT ![t] = "load"]
    /\ targ' = [targ EXCEPT ![t] = index]
    /\ tentry' = [tentry EXCEPT ![t] = CopyIndex(indices[index])]
    /\ entries' = CacheStore(entries, index, CopyIndex(indices[index]))
    /\ UNCHANGED <<key, indices, loads, ret,
                   file_names_cache, cancelled, job, cli,
                   idx_file, gui>>

\* lines 78-89: the cache test, the range test, the copy of the index record
T_Check(t, index) ==
    /\ pc[t] = "idle"
    /\ ~CacheHit(entries, index)
    /\ ValidOrdinal(indices, index)
    /\ pc' = [pc EXCEPT ![t] = "load"]
    /\ targ' = [targ EXCEPT ![t] = index]
    /\ tentry' = [tentry EXCEPT ![t] = CopyIndex(indices[index])]
    /\ UNCHANGED <<key, indices, entries, loads, ret,
                   file_names_cache, cancelled, job, cli,
                   idx_file, gui>>

\* a thread after the pipeline: an exception leaves read_entry, otherwise the
\* filename is suffixed and the cache store is next
T_AfterLoad(t, r) ==
    IF r.raised
    THEN /\ pc' = [pc EXCEPT ![t] = "idle"]
         /\ targ' = [targ EXCEPT ![t] = 0]
         /\ tentry' = [tentry EXCEPT ![t] = NewEntry]
    ELSE /\ pc' = [pc EXCEPT ![t] = "store"]
         /\ tentry' = [tentry EXCEPT ![t] = SuffixName(r.entry)]
         /\ UNCHANGED targ

\* lines 91-95: open the data file, run the pipeline, suffix the filename
T_Load(t, ioOK) ==
    /\ pc[t] = "load"
    /\ IF ~ioOK
       THEN /\ pc' = [pc EXCEPT ![t] = "idle"]
            /\ targ' = [targ EXCEPT ![t] = 0]
            /\ tentry' = [tentry EXCEPT ![t] = NewEntry]
            /\ UNCHANGED loads
       ELSE /\ loads[targ[t]] < MaxLoads
            /\ loads' = [loads EXCEPT ![targ[t]] = @ + 1]
            /\ T_AfterLoad(t, WithExit(LoadEntryData(tentry[t], key, WpkData)))
    /\ UNCHANGED <<key, indices, entries, ret,
                   file_names_cache, cancelled, job, cli,
                   idx_file, gui>>

\* lines 97-98: the cache store and the return
T_Store(t) ==
    /\ pc[t] = "store"
    /\ entries' = CacheStore(entries, targ[t], tentry[t])
    /\ pc' = [pc EXCEPT ![t] = "idle"]
    /\ targ' = [targ EXCEPT ![t] = 0]
    /\ tentry' = [tentry EXCEPT ![t] = NewEntry]
    /\ UNCHANGED <<key, indices, loads, ret,
                   file_names_cache, cancelled, job, cli,
                   idx_file, gui>>

NextConc ==
    \/ \E t \in Threads, index \in Requests : T_Check(t, index)
    \/ \E t \in Threads, ioOK \in BOOLEAN : T_Load(t, ioOK)
    \/ \E t \in Threads : T_Store(t)

SpecConc == Init /\ [][NextConc]_vars

----------------------------------------------------------------------------
(* The rename dialog used while read_entry runs on a worker thread: the
   dialog runs on the GUI thread, between any two steps of the worker. *)

\* the thread resolving entries in the background
Worker == 1

NextRename ==
    \/ \E index \in Requests : T_Check(Worker, index)
    \/ \E ioOK \in BOOLEAN : T_Load(Worker, ioOK)
    \/ T_Store(Worker)
    \/ \E row \in DOMAIN indices, name \in NewNames, ok \in BOOLEAN : Rename(row, name, ok)

SpecRename == Init /\ [][NextRename]_vars

----------------------------------------------------------------------------
(* The list model reading the cache on the GUI thread while read_entry runs
   on a worker thread: one writer, and a reader between any two of its
   steps. *)

\* the roles data() is asked for; EditRole stands for every role it ignores
Roles == {"DisplayRole", "DecorationRole", "UserRole", "EditRole"}

\* the rows of the model indexes handed to data(): the valid ones, and -1 for
\* an invalid index
ModelRows == DOMAIN indices \cup {0 - 1}

\* lines 39-43: the text of a resolved row
DisplayText(filename, flags) ==
    IF "ERROR" \in flags THEN filename \o " (Error)"
    ELSE IF "ENCRYPTED" \in flags THEN filename \o " (Encrypted)"
    ELSE filename

\* lines 49-53: the icon of a resolved row
DecorationIcon(flags) ==
    IF "ERROR" \in flags THEN "errored"
    ELSE IF "ENCRYPTED" \in flags THEN "encrypted"
    ELSE "file"

\* a reader that calls read_entry without asking is_entry_loaded first
DataEntryAlways(idx, ents, lds, k, row) ==
    ReadEntryCall(idx, ents, lds, k, row, TRUE)

\* lines 35-38 and 45-48: the reader asks is_entry_loaded and calls
\* read_entry, a cache hit, only when it is true
DataEntry(idx, ents, lds, k, row) ==
    IF is_entry_loaded(ents, row)
    THEN ReadEntryCall(idx, ents, lds, k, row, TRUE)
    ELSE NoLoad(ents, lds, "unloaded", "", NewEntry)

\* what data() returns for the role, from the filename get_filename gave and
\* the outcome r of the entry lookup; NoValue is None
DataValue(idx, row, role, filename, r) ==
    IF role = "DisplayRole"
    THEN [NoValue EXCEPT !.text = IF r.kind = "entry"
                                  THEN DisplayText(filename, r.entry.data_flags)
                                  ELSE filename]
    ELSE IF role = "DecorationRole"
    THEN [NoValue EXCEPT !.icon = IF r.kind = "entry"
                                  THEN DecorationIcon(r.entry.data_flags)
                                  ELSE "loading"]
    ELSE IF role = "UserRole"
    THEN [NoValue EXCEPT !.record = idx[row]]
    ELSE NoValue

\* the model, the container and the caller after data(row, role), g being the
\* outcome of get_filename and r of the entry lookup
DataDone(row, role, g, r) ==
    /\ WithinLoads(r.loads)
    /\ file_names_cache' = IF role = "DisplayRole" THEN g.cache ELSE file_names_cache
    /\ entries' = IF role \in {"DisplayRole", "DecorationRole"} THEN r.entries ELSE entries
    /\ loads' = IF role \in {"DisplayRole", "DecorationRole"} THEN r.loads ELSE loads
    /\ ret' = IF role \in {"DisplayRole", "DecorationRole"}
              THEN [NoCall EXCEPT !.op = "data", !.index = row, !.role = role,
                                  !.kind = r.kind, !.exc = r.exc, !.entry = r.entry,
                                  !.opened = r.opened, !.loaded = r.loaded,
                                  !.handle = r.handle,
                                  !.value = DataValue(indices, row, role, g.filename, r)]
              ELSE [NoCall EXCEPT !.op = "data", !.index = row, !.role = role,
                                  !.kind = "unloaded",
                                  !.value = DataValue(indices, row, role, g.filename, r)]
    /\ UNCHANGED <<key, indices, pc, targ, tentry, cancelled, job, cli, idx_file, gui>>

\* WPKFileModel.data(index, role)
Data(row, role) ==
    IF ~ValidOrdinal(indices, row)
    THEN /\ ret' = [NoCall EXCEPT !.op = "data", !.index = row, !.role = role,
                                  !.kind = "invalid"]
         /\ UNCHANGED <<key, indices, entries, loads, pc, targ, tentry,
                        file_names_cache, cancelled, job, cli, idx_file, gui>>
    ELSE DataDone(row, role, GetFilenameCall(file_names_cache, indices, row, FALSE),
                  DataEntry(indices, entries, loads, key, row))

NextReader ==
    \/ \E index \in Requests : T_Check(Worker, index)
    \/ \E ioOK \in BOOLEAN : T_Load(Worker, ioOK)
    \/ T_Store(Worker)
    \/ \E row \in ModelRows, role \in Roles : Data(row, role)

SpecReader == Init /\ [][NextReader]_vars

----------------------------------------------------------------------------
(* Construction of the container from an index file whose records may carry
   tags outside the enumerations.  ret.op is "new" before WPKFile(...) is
   called; an exception of __init__ leaves the caller without a container. *)

\* the records an index file may hold: those of SampleRecords, and two with
\* a tag outside the enumeration, one in either field
RawSampleRecords ==
    {RawRecord("", rec) : rec \in SampleRecords}
    \cup {[file_offset |-> 3, file_length |-> 1, file_original_length |-> 1,
           zip_flag |-> 7, encrypt_flag |-> 0, filename |-> ""],
          [file_offset |-> 0, file_length |-> 4, file_original_length |-> 4,
           zip_flag |-> 1, encrypt_flag |-> 7, filename |-> ""]}

\* the index files handed to the constructor: up to MaxCount records in the
\* order of their offsets, none listed twice, named as in IndexNames
RawIndexFiles ==
    UNION { { [count |-> n,
               records |-> [i \in 1..n |-> [shape[i] EXCEPT !.filename = IndexNames[i]]]] :
              shape \in { sh \in [1..n -> RawSampleRecords] :
                            \A i, j \in 1..n :
                                i < j => /\ sh[i] # sh[j]
                                         /\ sh[i].file_offset <= sh[j].file_offset } } :
            n \in 0..MaxCount }

InitOpen ==
    /\ key \in Keys
    /\ idx_file \in RawIndexFiles
    /\ indices = << >>
    /\ entries = << >>
    /\ loads = << >>
    /\ ret = [NoCall EXCEPT !.op = "new"]
    /\ pc = [t \in Threads |-> "idle"]
    /\ targ = [t \in Threads |-> 0]
    /\ tentry = [t \in Threads |-> NewEntry]
    /\ file_names_cache = << >>
    /\ cancelled = FALSE
    /\ job = NoJob
    /\ cli = NoCli
    /\ gui = NoGui

\* the container of the caller after WPKFile.__init__ with outcome r of
\* _read_indices: self.entries = {}, self.indices as far as it was built
ConstructDone(r) ==
    /\ indices' = r.indices
    /\ loads' = [i \in DOMAIN r.indices |-> 0]
    /\ entries' = << >>
    /\ ret' = [NoCall EXCEPT !.kind = r.kind, !.exc = r.exc, !.at = r.at]
    /\ UNCHANGED <<key, pc, targ, tentry, file_names_cache, cancelled, job, cli,
                   idx_file, gui>>

\* WPKFile(idx_path, wpk_path, options)
Construct ==
    /\ ret.op = "new"
    /\ ConstructDone(ReadIndices(idx_file))

\* the caller holds a container: the constructor returned
Usable == ret.op # "new" /\ ~(ret.op = "open" /\ ret.kind = "raise")

NextOpen ==
    \/ Construct
    \/ \E index \in Requests, ioOK \in BOOLEAN : Usable /\ ReadEntry(index, ioOK)

SpecOpen == InitOpen /\ [][NextOpen]_vars

----------------------------------------------------------------------------
(* MainWindow.load_wpk and unload_wpk.  gui.wpk_file says whether the
   application property "wpk_file" holds a container, whose tables are
   indices and entries; gui.wpk_model whether the WPK list has a model. *)

\* the main window before any file is loaded
InitWindow ==
    /\ key = << >>
    /\ indices = << >>
    /\ entries = << >>
    /\ loads = << >>
    /\ ret = NoCall
    /\ pc = [t \in Threads |-> "idle"]
    /\ targ = [t \in Threads |-> 0]
    /\ tentry = [t \in Threads |-> NewEntry]
    /\ file_names_cache = << >>
    /\ cancelled = FALSE
    /\ job = NoJob
    /\ cli = NoCli
    /\ idx_file = NoIndexFile
    /\ gui = NoGui

\* filenames of a second archive, ordinal by ordinal different from IndexNames
OtherNames == <<"p", "p.txt", "q", "q.txt", "r">>

\* the index files opened from the menu: those of RawIndexFiles under either
\* table of names
WindowIndexFiles ==
    RawIndexFiles \cup
    { [f EXCEPT !.records = [i \in 1..f.count |->
                                [f.records[i] EXCEPT !.filename = OtherNames[i]]]] :
      f \in RawIndexFiles }

\* the index files opened while an NPK archive may be loading: those whose
\* records lie at offset 3 and beyond, one of which carries an unknown tag
MenuIndexFiles ==
    { f \in RawIndexFiles : \A i \in 1..f.count : f.records[i].file_offset >= 3 }

\* the window after unload_wpk (lines 392-409): nothing when no container is
\* held, otherwise the property cleared, the list left without a model, the
\* NPK list current, 'Unload WPK' disabled, 'Open IDX/WPK' enabled
UnloadWpkCall(g) ==
    IF ~g.wpk_file
    THEN g
    ELSE [g EXCEPT !.wpk_file = FALSE, !.wpk_model = FALSE, !.list_widget = "npk",
                   !.unload_wpk_enabled = FALSE, !.open_wpk_enabled = TRUE]

\* WPKFile(...) of line 537 on the index file raw; ioOK says whether the
\* index file can be opened
ConstructCall(raw, ioOK) ==
    IF ioOK THEN ReadIndices(raw)
    ELSE [indices |-> << >>, kind |-> "raise", exc |-> "OSError", at |-> 0]

\* load_wpk after its call of unload_wpk left the window as g, r being the
\* outcome of the constructor: lines 527-535 switch to the WPK list, disable
\* 'Open IDX/WPK' and enable 'Unload WPK' before the constructor is called;
\* its exception leaves load_wpk there, otherwise the container is stored and
\* the list gets a new model (lines 540-541)
LoadWpkDone(raw, g, r) ==
    /\ idx_file' = raw
    /\ entries' = << >>
    /\ IF r.kind = "raise"
       THEN /\ indices' = << >>
            /\ loads' = << >>
            /\ gui' = [g EXCEPT !.list_widget = "wpk", !.open_wpk_enabled = FALSE,
                                !.unload_wpk_enabled = TRUE]
       ELSE /\ indices' = r.indices
            /\ loads' = [i \in DOMAIN r.indices |-> 0]
            /\ gui' = [g EXCEPT !.list_widget = "wpk", !.open_wpk_enabled = FALSE,
                                !.unload_wpk_enabled = TRUE,
                                !.wpk_file = TRUE, !.wpk_model = TRUE]
    /\ ret' = [NoCall EXCEPT !.op = "load_wpk", !.kind = r.kind, !.exc = r.exc]
    /\ UNCHANGED <<key, pc, targ, tentry, file_names_cache, cancelled, job, cli>>

\* 'Open IDX/WPK' chosen from the menu: load_wpk on the index file raw
LoadWpk(raw, ioOK) ==
    /\ gui.open_wpk_enabled
    /\ LoadWpkDone(raw, UnloadWpkCall(gui), ConstructCall(raw, ioOK))

\* 'Unload WPK' chosen from the menu: unload_wpk
UnloadWpk ==
    /\ gui.unload_wpk_enabled
    /\ gui' = UnloadWpkCall(gui)
    /\ indices' = IF gui.wpk_file THEN << >> ELSE indices
    /\ entries' = IF gui.wpk_file THEN << >> ELSE entries
    /\ loads' = IF gui.wpk_file THEN << >> ELSE loads
    /\ ret' = [NoCall EXCEPT !.op = "unload_wpk"]
    /\ UNCHANGED <<key, pc, targ, tentry, file_names_cache, cancelled, job, cli,
                   idx_file>>

----------------------------------------------------------------------------
(* The WPK list model across archives: refresh_wpk_file gives the list a new
   WPKFileModel for each container, while _file_names_cache is an attribute
   of the class, shared by every model and emptied by none. *)

\* the view asks the model of the held container for data(row, role)
Display(row, role) ==
    /\ gui.wpk_model
    /\ Data(row, role)

\* the rename dialog of the list, which returns at once without a model
RenameShown(row, name, ok) ==
    /\ gui.wpk_model
    /\ Rename(row, name, ok)

NextModel ==
    \/ \E raw \in WindowIndexFiles, ioOK \in BOOLEAN : LoadWpk(raw, ioOK)
    \/ UnloadWpk
    \/ \E row \in ModelRows, role \in Roles : Display(row, role)
    \/ \E row \in DOMAIN indices, name \in NewNames, ok \in BOOLEAN :
           RenameShown(row, name, ok)

SpecModel == InitWindow /\ [][NextModel]_vars

\* C33: for every valid row r of the list model of the held container,
\* get_filename(r) returns the current filename of record r of that container,
\* after any sequence of load, display, rename, unload and load of another
\* archive
C33_FilenameOfOwnContainer ==
    gui.wpk_model =>
        \A r \in DOMAIN indices :
            GetFilenameCall(file_names_cache, indices, r, FALSE).filename
                = indices[r].filename

----------------------------------------------------------------------------
(* WPKFileList: setDisabled, on_current_changed and on_item_double_clicked.
   gui.wpk_disabled is self._disabled, gui.select_after_enabled the row of
   self._select_after_enabled (-1 is None), gui.previews and gui.opens the
   rows of the preview_entry and open_entry signals emitted so far.  The
   outcome of a handler is [gui, read, raised]: the list afterwards, whether
   read_entry was called, whether its exception left the handler. *)

\* the most signals of either kind the list emits in a run
MaxEmits == 2

\* on_current_changed(current) on the list g, r being the outcome of
\* read_entry(row): a disabled list remembers the row and returns
OnCurrentChanged(g, row, r) ==
    IF g.wpk_disabled
    THEN [gui |-> [g EXCEPT !.select_after_enabled = row],
          read |-> FALSE, raised |-> FALSE]
    ELSE IF ~g.wpk_model \/ ~g.wpk_file
    THEN [gui |-> g, read |-> FALSE, raised |-> FALSE]
    ELSE IF r.kind = "raise"
    THEN [gui |-> g, read |-> TRUE, raised |-> TRUE]
    ELSE [gui |-> [g EXCEPT !.previews = Append(@, row)],
          read |-> TRUE, raised |-> FALSE]

\* on_item_double_clicked(index)
OnItemDoubleClicked(g, row, r) ==
    IF g.wpk_disabled \/ ~g.wpk_model \/ ~g.wpk_file
    THEN [gui |-> g, read |-> FALSE, raised |-> FALSE]
    ELSE IF r.kind = "raise"
    THEN [gui |-> g, read |-> TRUE, raised |-> TRUE]
    ELSE [gui |-> [g EXCEPT !.opens = Append(@, row)],
          read |-> TRUE, raised |-> FALSE]

\* setDisabled(disabled) on the list g, r being the outcome of read_entry on
\* the remembered row: line 46 stores the flag; with a selection remembered,
\* whatever `disabled` is, lines 48-54 hand it to on_current_changed and then
\* forget it, unless an exception of read_entry left the method before
SetDisabledCall(g, disabled, r) ==
    IF g.select_after_enabled = 0 - 1
    THEN [gui |-> [g EXCEPT !.wpk_disabled = disabled],
          read |-> FALSE, raised |-> FALSE]
    ELSE IF OnCurrentChanged([g EXCEPT !.wpk_disabled = disabled],
                             g.select_after_enabled, r).raised
    THEN OnCurrentChanged([g EXCEPT !.wpk_disabled = disabled],
                          g.select_after_enabled, r)
    ELSE [OnCurrentChanged([g EXCEPT !.wpk_disabled = disabled],
                           g.select_after_enabled, r)
             EXCEPT !.gui.select_after_enabled = 0 - 1]

\* the window, the container and the caller after a handler of the list with
\* outcome o, whose read_entry(row), if called, had outcome r
ListDone(op, row, o, r) ==
    /\ Len(o.gui.previews) <= MaxEmits
    /\ Len(o.gui.opens) <= MaxEmits
    /\ WithinLoads(IF o.read THEN r.loads ELSE loads)
    /\ gui' = o.gui
    /\ entries' = IF o.read THEN r.entries ELSE entries
    /\ loads' = IF o.read THEN r.loads ELSE loads
    /\ ret' = [NoCall EXCEPT !.op = op, !.index = row,
                             !.kind = IF o.raised THEN "raise" ELSE "done",
                             !.exc = IF o.raised THEN r.exc ELSE "",
                             !.loaded = o.read /\ r.loaded]
    /\ UNCHANGED <<key, indices, pc, targ, tentry, file_names_cache, cancelled,
                   job, cli, idx_file>>

\* setDisabled(disabled) is called on the WPK list
SetDisabled(disabled, ioOK) ==
    ListDone("setDisabled", gui.select_after_enabled,
             SetDisabledCall(gui, disabled,
                 ReadEntryCall(indices, entries, loads, key,
                               gui.select_after_enabled, ioOK)),
             ReadEntryCall(indices, entries, loads, key,
                           gui.select_after_enabled, ioOK))

\* the selection model reports row `row` as the current one
CurrentChanged(row, ioOK) ==
    /\ gui.wpk_model
    /\ ListDone("on_current_changed", row,
                OnCurrentChanged(gui, row,
                    ReadEntryCall(indices, entries, loads, key, row, ioOK)),
                ReadEntryCall(indices, entries, loads, key, row, ioOK))

\* row `row` is double-clicked
DoubleClicked(row, ioOK) ==
    /\ gui.wpk_model
    /\ ListDone("on_item_double_clicked", row,
                OnItemDoubleClicked(gui, row,
                    ReadEntryCall(indices, entries, loads, key, row, ioOK)),
                ReadEntryCall(indices, entries, loads, key, row, ioOK))

NextList ==
    \/ \E raw \in MenuIndexFiles, ioOK \in BOOLEAN : LoadWpk(raw, ioOK)
    \/ \E disabled \in BOOLEAN, ioOK \in BOOLEAN : SetDisabled(disabled, ioOK)
    \/ \E row \in DOMAIN indices, ioOK \in BOOLEAN : CurrentChanged(row, ioOK)
    \/ \E row \in DOMAIN indices, ioOK \in BOOLEAN : DoubleClicked(row, ioOK)

SpecList == InitWindow /\ [][NextList]_vars

\* C35: a selection change on the disabled WPK list emits no preview,
\* resolves nothing and is remembered; a double-click on the disabled list
\* emits nothing; and under any sequence of setDisabled(True), setDisabled(False)
\* and selection changes the remembered selection is not lost: the list
\* forgets it only in the step that previews it, once
C35_RememberedSelectionKept ==
    [][/\ (ret'.op = "on_current_changed" /\ gui.wpk_disabled)
              => /\ gui'.previews = gui.previews
                 /\ entries' = entries
                 /\ gui'.select_after_enabled = ret'.index
       /\ (ret'.op = "on_item_double_clicked" /\ gui.wpk_disabled)
              => /\ gui'.opens = gui.opens
                 /\ gui'.previews = gui.previews
                 /\ entries' = entries
       /\ (gui.select_after_enabled # 0 - 1 /\ gui'.select_after_enabled = 0 - 1)
              => gui'.previews = Append(gui.previews, gui.select_after_enabled)
      ]_vars

----------------------------------------------------------------------------
(* The aggregate operations, one ordinal per step: extract_all over the
   records of the container, and the background load of all entries that
   load_npk starts.  job.at is the next ordinal, job.phase the position in
   the loop: "between" two ordinals, "read" once the loader is past its
   cancellation test, "finished" once the loader has emitted its completion
   signal.  The archive the loader reads is job.count entries long, the set
   job.resolved of them read so far. *)

\* the loop state of extract_all between two ordinals, from the container and
\* the progress so far
ExtractResume(ents, lds, progress) ==
    [entries |-> ents, loads |-> lds, kind |-> "done", exc |-> "",
     at |-> progress.at, writes |-> progress.writes, files |-> progress.files,
     opened |-> progress.opened, handle |-> progress.handle]

\* whether the loop of extract_all goes on after the loop state st
ExtractKind(idx, st) ==
    IF st.kind = "raise" THEN "raise"
    ELSE IF st.at < Count(idx) THEN "running" ELSE "done"

\* the container, the caller and the job after the loop state st
ExtractProgress(st) ==
    /\ WithinLoads(st.loads)
    /\ entries' = st.entries
    /\ loads' = st.loads
    /\ ret' = [NoCall EXCEPT !.op = "extract_all", !.kind = ExtractKind(indices, st),
                             !.exc = st.exc, !.at = st.at, !.opened = st.opened,
                             !.handle = st.handle,
                             !.writes = st.writes, !.files = st.files]
    /\ job' = IF ExtractKind(indices, st) = "running"
              THEN [NoJob EXCEPT !.op = "extract_all", !.at = st.at, !.phase = "between"]
              ELSE NoJob

\* extract_all is called: the loop is before ordinal 0
ExtractAllBegin ==
    /\ job.op = "none"
    /\ cancelled' = FALSE
    /\ ExtractProgress(ExtractStart(entries, loads))
    /\ UNCHANGED <<key, indices, pc, targ, tentry, file_names_cache, cli,
                   idx_file, gui>>

\* one iteration of the loop of extract_all; ioOK says whether the data file
\* can be opened.  The loop body consults no cancellation request.
ExtractAllNext(ioOK) ==
    /\ job.op = "extract_all"
    /\ ExtractProgress(ExtractStep(indices, key, IF ioOK THEN job.at + 1 ELSE job.at,
                                   ExtractResume(entries, loads, ret), job.at))
    /\ UNCHANGED <<key, indices, pc, targ, tentry, file_names_cache, cancelled, cli,
                   idx_file, gui>>

\* the window after unload_npk (lines 377-390): nothing when no NPK archive
\* is held, otherwise the property cleared and the NPK list current
UnloadNpkCall(g) ==
    IF ~g.npk_file
    THEN g
    ELSE [g EXCEPT !.npk_file = FALSE, !.list_widget = "npk"]

\* load_npk on an archive of count entries: the NPK list is made current and
\* disabled, 'Open File' is disabled and 'Open IDX/WPK' enabled, the flag is
\* cleared and the loader is started on the thread pool
LoadNpk(count) ==
    /\ job.op = "none"
    /\ gui.open_file_enabled
    /\ cancelled' = FALSE
    /\ job' = [NoJob EXCEPT !.op = "load_entries", !.count = count, !.phase = "between"]
    /\ gui' = [UnloadNpkCall(gui) EXCEPT !.list_widget = "npk",
                                         !.open_file_enabled = FALSE,
                                         !.open_wpk_enabled = TRUE,
                                         !.npk_disabled = TRUE,
                                         !.npk_file = TRUE]
    /\ UNCHANGED <<key, indices, entries, loads, ret, pc, targ, tentry,
                   file_names_cache, cli, idx_file>>

\* a loader whose loop has no cancellation test
LoadEntriesCheckNoCancel ==
    /\ job.op = "load_entries"
    /\ job.phase = "between"
    /\ job' = IF job.at >= job.count
              THEN [job EXCEPT !.phase = "finished", !.complete = @ + 1]
              ELSE [job EXCEPT !.phase = "read"]
    /\ gui' = IF job.at >= job.count
              THEN [gui EXCEPT !.pending = Append(@, [sig |-> "complete", row |-> 0])]
              ELSE gui
    /\ UNCHANGED <<key, indices, entries, loads, ret, pc, targ, tentry,
                   file_names_cache, cancelled, cli, idx_file>>

\* _load_entries at the top of its loop: the range test and the test of
\* self._loading_cancelled; leaving the loop emits loading_complete_signal
LoadEntriesCheck ==
    /\ job.op = "load_entries"
    /\ job.phase = "between"
    /\ job' = IF job.at >= job.count \/ cancelled
              THEN [job EXCEPT !.phase = "finished", !.complete = @ + 1]
              ELSE [job EXCEPT !.phase = "read"]
    /\ gui' = IF job.at >= job.count \/ cancelled
              THEN [gui EXCEPT !.pending = Append(@, [sig |-> "complete", row |-> 0])]
              ELSE gui
    /\ UNCHANGED <<key, indices, entries, loads, ret, pc, targ, tentry,
                   file_names_cache, cancelled, cli, idx_file>>

\* _load_entries in its loop body: npk_file.read_entry(i) and the two
\* signals, of which update_model_signal(i) is queued for the GUI thread
LoadEntriesRead ==
    /\ job.op = "load_entries"
    /\ job.phase = "read"
    /\ job' = [job EXCEPT !.resolved = @ \cup {job.at}, !.at = @ + 1,
                          !.phase = "between"]
    /\ gui' = [gui EXCEPT !.pending = Append(@, [sig |-> "update", row |-> job.at])]
    /\ UNCHANGED <<key, indices, entries, loads, ret, pc, targ, tentry,
                   file_names_cache, cancelled, cli, idx_file>>

\* the model _update_model reaches through self.list_widget: that of the NPK
\* list, that of the WPK list, or None when the WPK list has no model
UpdateTarget(g) ==
    IF g.list_widget = "npk" THEN "npk"
    ELSE IF g.wpk_model THEN "wpk" ELSE "none"

\* _update_model(index), the slot of update_model_signal: get_filename with
\* invalidate_cache on the model of whichever list self.list_widget is now
UpdateModel ==
    /\ gui.pending # << >>
    /\ Head(gui.pending).sig = "update"
    /\ gui' = [gui EXCEPT !.pending = Tail(@), !.updates = @ \cup {UpdateTarget(gui)}]
    /\ file_names_cache' =
           IF UpdateTarget(gui) = "wpk"
           THEN GetFilenameCall(file_names_cache, indices, Head(gui.pending).row, TRUE).cache
           ELSE file_names_cache
    /\ UNCHANGED <<key, indices, entries, loads, ret, pc, targ, tentry,
                   cancelled, job, cli, idx_file>>

\* the window after lines 564-575 of _loading_complete: the two open actions
\* enabled, then unload_npk if the load was cancelled (apply_filter, the
\* other branch, works on the NPK list and its archive only)
LoadingCompleteRest(g, cnc) ==
    IF cnc
    THEN UnloadNpkCall([g EXCEPT !.open_file_enabled = TRUE, !.open_wpk_enabled = TRUE])
    ELSE [g EXCEPT !.open_file_enabled = TRUE, !.open_wpk_enabled = TRUE]

\* _loading_complete on the window g: line 563 calls setDisabled(False) on
\* whichever list self.list_widget is now, r being the outcome of the
\* read_entry the WPK list may make; its exception leaves the slot at once
LoadingCompleteCall(g, cnc, r) ==
    IF g.list_widget = "npk"
    THEN [gui |-> LoadingCompleteRest([g EXCEPT !.npk_disabled = FALSE], cnc),
          read |-> FALSE, raised |-> FALSE]
    ELSE IF SetDisabledCall(g, FALSE, r).raised
    THEN SetDisabledCall(g, FALSE, r)
    ELSE [SetDisabledCall(g, FALSE, r)
             EXCEPT !.gui = LoadingCompleteRest(SetDisabledCall(g, FALSE, r).gui, cnc)]

\* the window and the container after _loading_complete with outcome o
LoadingCompleteDone(o, r) ==
    /\ WithinLoads(IF o.read THEN r.loads ELSE loads)
    /\ Len(o.gui.previews) <= MaxEmits
    /\ gui' = o.gui
    /\ entries' = IF o.read THEN r.entries ELSE entries
    /\ loads' = IF o.read THEN r.loads ELSE loads
    /\ job' = NoJob
    /\ UNCHANGED <<key, indices, ret, pc, targ, tentry, file_names_cache,
                   cancelled, cli, idx_file>>

\* _loading_complete, the slot of loading_complete_signal
LoadingComplete(ioOK) ==
    /\ job.op = "load_entries"
    /\ job.phase = "finished"
    /\ gui.pending # << >>
    /\ Head(gui.pending).sig = "complete"
    /\ LoadingCompleteDone(
           LoadingCompleteCall([gui EXCEPT !.pending = Tail(@)], cancelled,
               ReadEntryCall(indices, entries, loads, key,
                             gui.select_after_enabled, ioOK)),
           ReadEntryCall(indices, entries, loads, key,
                         gui.select_after_enabled, ioOK))

\* cancel_loading, and any external request to cancel the running operation
CancelRequest ==
    /\ job.op # "none"
    /\ ~cancelled
    /\ cancelled' = TRUE
    /\ UNCHANGED <<key, indices, entries, loads, ret, pc, targ, tentry,
                   file_names_cache, job, cli,
                   idx_file, gui>>

NextAgg ==
    \/ ExtractAllBegin
    \/ \E ioOK \in BOOLEAN : ExtractAllNext(ioOK)
    \/ \E count \in 0..MaxCount : LoadNpk(count)
    \/ LoadEntriesCheck
    \/ LoadEntriesRead
    \/ UpdateModel
    \/ \E ioOK \in BOOLEAN : LoadingComplete(ioOK)
    \/ CancelRequest

SpecAgg == Init /\ [][NextAgg]_vars

\* the loader runs on a thread of the global thread pool, which runs it to
\* its end: a step of the loader that is possible is eventually taken
SpecAggLive ==
    SpecAgg /\ WF_vars(LoadEntriesCheck) /\ WF_vars(LoadEntriesRead)

(* The main window: its two lists, its menu actions and the background load
   of load_npk, whose signals are queued in gui.pending and delivered in
   order to the slots _update_model and _loading_complete. *)

NextWindow ==
    \/ \E raw \in MenuIndexFiles, ioOK \in BOOLEAN : LoadWpk(raw, ioOK)
    \/ UnloadWpk
    \/ \E count \in 0..MaxCount : LoadNpk(count)
    \/ LoadEntriesCheck
    \/ LoadEntriesRead
    \/ UpdateModel
    \/ \E ioOK \in BOOLEAN : LoadingComplete(ioOK)
    \/ CancelRequest

SpecWindow == InitWindow /\ [][NextWindow]_vars

\* C34: after any sequence of load_wpk, succeeding or failing at
\* construction, unload_wpk and load_npk, 'Unload WPK' is enabled exactly
\* when a WPK container is held, and 'Open IDX/WPK' is not left disabled
\* while none is held
C34_WpkActionsFollowContainer ==
    /\ gui.unload_wpk_enabled <=> gui.wpk_file
    /\ ~gui.wpk_file => gui.open_wpk_enabled

\* C36: the NPK list, which load_npk disabled, is enabled again once the
\* load has completed, and every per-row update of the loader went to the
\* model of the NPK list, under every interleaving of the loader's signals
\* with load_wpk, unload_wpk and cancel
C36_LoadRestoresItsList ==
    /\ job.op = "none" => ~gui.npk_disabled
    /\ gui.updates \subseteq {"npk"}


----------------------------------------------------------------------------
(* core/detection.py: the sniffer.  A file is its byte string, a byte one of
   the values below ("NUL" is the zero byte). *)

ByteValues == {"I", "D", "X", "W", "P", "K", "NUL"}

IDX_SIGNATURE == <<"I", "D", "X", "NUL">>

WPK_SIGNATURE == <<"W", "P", "K", "NUL">>

\* bytes.startswith
startswith(data, prefix) ==
    Len(data) >= Len(prefix) /\ SubSeq(data, 1, Len(prefix)) = prefix

\* the signature test on the first three bytes
is_idx_signature_short(data) ==
    startswith(data, SubSeq(IDX_SIGNATURE, 1, 3))

is_idx_signature(data) ==
    Len(data) >= Len(IDX_SIGNATURE) /\ startswith(data, IDX_SIGNATURE)

is_wpk_signature(data) ==
    Len(data) >= Len(WPK_SIGNATURE) /\ startswith(data, WPK_SIGNATURE)

\* max(len(IDX_SIGNATURE), len(WPK_SIGNATURE))
max_len == IF Len(IDX_SIGNATURE) > Len(WPK_SIGNATURE)
           THEN Len(IDX_SIGNATURE) ELSE Len(WPK_SIGNATURE)

\* file.read(max_len) on a file just opened
ReadHeader(content) == SubSeq(content, 1, Min(max_len, Len(content)))

\* the type of a header: "none" is None
HeaderType(header) ==
    IF is_idx_signature(header) THEN "idx"
    ELSE IF is_wpk_signature(header) THEN "wpk"
    ELSE "none"

\* detect_file_type(path) on the files `files`, path among them
detect_file_type(files, path) == HeaderType(ReadHeader(files[path]))

\* the files the sniffer is tried on: every byte string up to MaxFileLen
FileContents == UNION { [1..n -> ByteValues] : n \in 0..MaxFileLen }

\* the variables of the container, unused by the command line
NoContainer ==
    /\ key = << >>
    /\ indices = << >>
    /\ entries = << >>
    /\ loads = << >>
    /\ ret = NoCall
    /\ pc = [t \in Threads |-> "idle"]
    /\ targ = [t \in Threads |-> 0]
    /\ tentry = [t \in Threads |-> NewEntry]
    /\ file_names_cache = << >>
    /\ cancelled = FALSE
    /\ job = NoJob
    /\ idx_file = NoIndexFile
    /\ gui = NoGui

\* one file, of any content, at path "a"
InitSniff ==
    /\ NoContainer
    /\ \E content \in FileContents :
          cli = [NoCli EXCEPT !.path = <<"a">>, !.files = (<<"a">> :> content)]

\* detect_file_type(cli.path)
Sniff ==
    /\ ~cli.parsed
    /\ cli' = [cli EXCEPT !.detected = detect_file_type(cli.files, cli.path),
                          !.parsed = TRUE]
    /\ UNCHANGED <<key, indices, entries, loads, ret, pc, targ, tentry,
                   file_names_cache, cancelled, job,
                   idx_file, gui>>

NextSniff == Sniff

SpecSniff == InitSniff /\ [][NextSniff]_vars

----------------------------------------------------------------------------
(* core/args.py: the pairing of the paths of the `wpk` subcommand, up to the
   paths WPKFile is constructed on.  A path is a sequence of symbols: "/"
   the separator, "." the extension separator, any other symbol a run of
   name characters.  An absent optional argument (None) is << >>. *)

NoPath == << >>

\* str.rfind, 1-based, 0 when the symbol does not occur
RFind(p, c) ==
    IF \E i \in 1..Len(p) : p[i] = c
    THEN CHOOSE i \in 1..Len(p) : p[i] = c /\ \A j \in (i + 1)..Len(p) : p[j] # c
    ELSE 0

\* os.path.splitext(p)[0]: the path without its extension; the extension
\* starts at the last dot of the last component, leading dots of the
\* component not counted
SplitextRoot(p) ==
    IF /\ RFind(p, ".") > RFind(p, "/")
       /\ \E i \in (RFind(p, "/") + 1)..(RFind(p, ".") - 1) : p[i] # "."
    THEN SubSeq(p, 1, RFind(p, ".") - 1)
    ELSE p

\* os.path.splitext(p)[0] + '.' + ext
ReplaceExt(p, ext) == SplitextRoot(p) \o <<".", ext>>

\* WPKFile.__init__, lines 39-40: the paths the container is opened on
WPKFilePaths(idx_path, wpk_path) ==
    [idx_path |-> idx_path,
     data_path |-> IF wpk_path # NoPath THEN wpk_path ELSE ReplaceExt(idx_path, "wpk"),
     raised |-> FALSE]

\* an exception of open() inside detect_file_type leaves parse_args
SniffRaised == [idx_path |-> NoPath, data_path |-> NoPath, raised |-> TRUE]

\* the third branch of parse_args, the second path sniffed
SwapBranch(path, wpk_path, files) ==
    IF wpk_path # NoPath
    THEN IF wpk_path \notin DOMAIN files
         THEN SniffRaised
         ELSE IF detect_file_type(files, wpk_path) = "idx"
         THEN WPKFilePaths(wpk_path, path)
         ELSE WPKFilePaths(path, wpk_path)
    ELSE WPKFilePaths(path, wpk_path)

\* parse_args with a data-type first path kept as the index path
ParseArgsNoDerive(path, wpk_path, files) ==
    IF path \notin DOMAIN files
    THEN SniffRaised
    ELSE IF detect_file_type(files, path) = "wpk"
    THEN WPKFilePaths(path, path)
    ELSE IF detect_file_type(files, path) = "idx" /\ wpk_path = NoPath
    THEN WPKFilePaths(path, NoPath)
    ELSE SwapBranch(path, wpk_path, files)

\* parse_args, lines 39-52, on the arguments path and wpk_path and the files
\* `files`: the paths WPKFile is constructed on
ParseArgsCall(path, wpk_path, files) ==
    IF path \notin DOMAIN files
    THEN SniffRaised
    ELSE IF detect_file_type(files, path) = "wpk"
    THEN WPKFilePaths(ReplaceExt(path, "idx"), path)
    ELSE IF detect_file_type(files, path) = "idx" /\ wpk_path = NoPath
    THEN WPKFilePaths(path, ReplaceExt(path, "wpk"))
    ELSE SwapBranch(path, wpk_path, files)

\* paths given on the command line
SamplePaths ==
    { <<"a", ".", "wpk">>, <<"a", ".", "idx">>, <<"b", ".", "idx">>, <<"b", ".", "wpk">>,
      <<"a">>, <<".", "a">>, <<"d", ".", "x", "/", "a">>, <<"d", "/", "a", ".", "b", ".", "x">> }

\* contents of the files they name: an index file, a data file, a file of
\* neither type, a file cut short, an empty file
SampleContents ==
    { <<"I", "D", "X", "NUL", "K">>, <<"W", "P", "K", "NUL", "K">>,
      <<"X", "X", "X", "X">>, <<"W", "P", "K">>, << >> }

\* the paths that may name a file: the arguments and the siblings of the first
NamedPaths(path, wpk_path) ==
    ({path, wpk_path} \ {NoPath}) \cup {ReplaceExt(path, "idx"), ReplaceExt(path, "wpk")}

\* the arguments and the files: the first path, the optional second path, and
\* for each named path either no file or a file of some content
InitCli ==
    /\ NoContainer
    /\ \E path \in SamplePaths, wpk_path \in SamplePaths \cup {NoPath} :
         \E present \in SUBSET NamedPaths(path, wpk_path) :
            \E files \in [present -> SampleContents] :
               cli = [NoCli EXCEPT !.path = path, !.wpk_path = wpk_path,
                                   !.files = files]

\* the state after parse_args computed the paths `r`
ParseArgsDone(r) ==
    /\ cli' = [cli EXCEPT !.idx_path = r.idx_path, !.data_path = r.data_path,
                          !.raised = r.raised, !.parsed = TRUE]
    /\ UNCHANGED <<key, indices, entries, loads, ret, pc, targ, tentry,
                   file_names_cache, cancelled, job,
                   idx_file, gui>>

\* parse_args() for the subcommand wpk
ParseArgs ==
    /\ ~cli.parsed
    /\ ParseArgsDone(ParseArgsCall(cli.path, cli.wpk_path, cli.files))

NextCli == ParseArgs

SpecCli == InitCli /\ [][NextCli]_vars

----------------------------------------------------------------------------
(* Properties *)

FailureBits == {"ERROR", "ENCRYPTED"}

KeyIsNonZero == key # << >> /\ key[1] # 0

\* C1: once an ordinal is resolved, its pipeline has run exactly once and never
\* runs again; every later read_entry of it returns, without loading, the
\* content and flags the resolving call returned and cached.
C1_ResolveOnce ==
    [][ /\ \A o \in DOMAIN entries :
             /\ loads[o] = 1
             /\ is_entry_loaded(entries', o)
             /\ loads'[o] = loads[o]
             /\ entries'[o].data = entries[o].data
             /\ entries'[o].data_flags = entries[o].data_flags
             /\ (ret'.op = "read_entry" /\ ret'.index = o) =>
                    /\ ret'.kind = "entry"
                    /\ ~ret'.loaded
                    /\ ret'.entry.data = entries[o].data
                    /\ ret'.entry.data_flags = entries[o].data_flags
        /\ \A o \in DOMAIN entries' \ DOMAIN entries :
             /\ loads'[o] = 1
             /\ ret'.op = "read_entry" => (ret'.index = o /\ ret'.entry = entries'[o])
      ]_vars

\* a second read_entry of a resolved ordinal has just returned from the cache
C1_Witness ==
    /\ ret.op = "read_entry"
    /\ ret.kind = "entry"
    /\ is_entry_loaded(entries, ret.index)
    /\ ~ret.loaded
    /\ loads[ret.index] = 1
    /\ ret.entry.data # << >>

\* C2: read_entry of an ordinal outside [0, count) opens nothing, runs no
\* stage, leaves the cache as it was with the ordinal not loaded, and
\* returns an entry that is all defaults but for flags = {ERROR}.
C2_OutOfRange ==
    [][ (ret'.op = "read_entry" /\ ~ValidOrdinal(indices, ret'.index)) =>
            /\ entries' = entries
            /\ loads' = loads
            /\ ~is_entry_loaded(entries, ret'.index)
            /\ ~is_entry_loaded(entries', ret'.index)
            /\ ~ret'.opened
            /\ ret'.stages = << >>
            /\ ret'.kind = "entry"
            /\ ret'.entry = [NewEntry EXCEPT !.data_flags = {"ERROR"}]
      ]_vars

\* read_entry(count) has just returned on a container with a non-empty cache
C2_Witness ==
    /\ ret.op = "read_entry"
    /\ ret.index = Count(indices)
    /\ DOMAIN entries # {}
    /\ "ERROR" \in ret.entry.data_flags

\* C3: when the decompress primitive rejects a record, the entry gets
\* ENCRYPTED and not ERROR under a configured non-zero key, ERROR and not
\* ENCRYPTED under no key or key 0; the failure bits of every cached entry
\* are the ones the key determines.
C3_FailureFlagByKey ==
    /\ (ret.op = "read_entry" /\ ret.failed = "decompress_entry") =>
          /\ ret.kind = "entry"
          /\ indices[ret.index].zip_flag # "NONE"
          /\ ret.entry.data_flags \cap FailureBits =
                (IF KeyIsNonZero THEN {"ENCRYPTED"} ELSE {"ERROR"})
          /\ entries[ret.index].data_flags = ret.entry.data_flags
    /\ \A o \in DOMAIN entries :
          entries[o].data_flags \cap FailureBits \in
             {{}, IF KeyIsNonZero THEN {"ENCRYPTED"} ELSE {"ERROR"}}

\* decompression has just failed under key 0 and the entry carries ERROR
C3_Witness ==
    /\ ret.op = "read_entry"
    /\ ret.failed = "decompress_entry"
    /\ key = <<0>>
    /\ "ERROR" \in ret.entry.data_flags

\* C4: no cached entry and no returned entry carries both ERROR and ENCRYPTED.
C4_ErrorEncryptedExclusive ==
    /\ \A o \in DOMAIN entries : ~(FailureBits \subseteq entries[o].data_flags)
    /\ (ret.op = "read_entry" /\ ret.kind = "entry") =>
          ~(FailureBits \subseteq ret.entry.data_flags)

\* an ENCRYPTED entry is cached and an ERROR placeholder has just been returned
C4_Witness ==
    /\ \E o \in DOMAIN entries : "ENCRYPTED" \in entries[o].data_flags
    /\ ret.op = "read_entry"
    /\ ret.kind = "entry"
    /\ "ERROR" \in ret.entry.data_flags

\* C5: a decode failure (decrypt or decompress) of a valid ordinal is never
\* raised out of read_entry: the entry is returned, cached, and flagged ERROR
\* or ENCRYPTED.
C5_DecodeFailureRecorded ==
    (ret.op = "read_entry" /\ ret.failed # "") =>
        /\ ret.kind = "entry"
        /\ is_entry_loaded(entries, ret.index)
        /\ ret.entry.data_flags \cap FailureBits # {}

\* C6: no two threads of control are both past the pipeline for the same
\* ordinal: the decode of a not-yet-resolved ordinal runs at most once.
C6_AtMostOnceDecode ==
    \A t1, t2 \in Threads :
        (t1 # t2 /\ pc[t1] = "store" /\ pc[t2] = "store") => targ[t1] # targ[t2]

\* C7: a read_entry that fails to open the data file raises and leaves the
\* container as it was, the ordinal not cached; a read_entry of the same
\* ordinal right after it, if it ends otherwise, has opened the data file.
C7_OpenFailureLeavesState ==
    [][ /\ (ret'.op = "read_entry" /\ ret'.exc = "OSError") =>
              /\ ret'.kind = "raise"
              /\ ValidOrdinal(indices, ret'.index)
              /\ entries' = entries
              /\ indices' = indices
              /\ loads' = loads
              /\ ~is_entry_loaded(entries', ret'.index)
        /\ (/\ ret.op = "read_entry" /\ ret.exc = "OSError"
            /\ ret'.op = "read_entry" /\ ret'.index = ret.index
            /\ ret' # ret) => ret'.opened
      ]_vars

\* an open failure has just been raised on a container with a non-empty cache
C7_Witness ==
    /\ ret.op = "read_entry"
    /\ ret.kind = "raise"
    /\ ret.exc = "OSError"
    /\ DOMAIN entries # {}

\* C8: no entry, cached or returned by a resolving call, has a raw slice
\* shorter than its file_length: a window that runs past the end of the data
\* file makes read_entry raise.
C8_ShortReadIsError ==
    /\ \A o \in DOMAIN entries :
          Len(FileRead(WpkData, entries[o].file_offset, entries[o].file_length))
              = entries[o].file_length
    /\ (ret.op = "read_entry" /\ ret.loaded /\ ret.kind = "entry") =>
          Len(FileRead(WpkData, ret.entry.file_offset, ret.entry.file_length))
              = ret.entry.file_length

\* C9: extract_all writes ordinals 0, 1, ... in ascending order, one write
\* each, up to the ordinal whose resolution raises and all count of them when
\* none does; each write carries the entry's content, flagged entries
\* included, and no ordinal cached before the call is loaded again.
C9_ExtractOrder ==
    [][ ret'.op = "extract_all" =>
            /\ Len(ret'.writes) = ret'.at
            /\ ret'.kind = "done" => ret'.at = Count(indices)
            /\ \A j \in 1..Len(ret'.writes) :
                  /\ ret'.writes[j].ordinal = j - 1
                  /\ is_entry_loaded(entries', j - 1)
                  /\ ret'.writes[j].data = entries'[j - 1].data
                  /\ is_entry_loaded(entries, j - 1) =>
                        ret'.writes[j].data = entries[j - 1].data
            /\ \A o \in DOMAIN entries : loads'[o] = loads[o]
      ]_vars

\* extract_all has just completed on two or more records, one of them flagged
C9_Witness ==
    /\ ret.op = "extract_all"
    /\ ret.kind = "done"
    /\ Len(ret.writes) >= 2
    /\ \E o \in DOMAIN entries : entries[o].data_flags \cap FailureBits # {}

\* C10 as stated: after a completed extract_all on records with pairwise
\* distinct index filenames the destination holds exactly count files, the
\* file of ordinal i holding its resolved content.
C10_DistinctRecordNames ==
    (/\ ret.op = "extract_all"
     /\ ret.kind = "done"
     /\ \A i, j \in DOMAIN indices : i # j => indices[i].filename # indices[j].filename) =>
        /\ Cardinality(DOMAIN ret.files) = Count(indices)
        /\ \A i \in DOMAIN indices :
              ret.files[JoinPath(entries[i].filename)] = entries[i].data

\* C10 amended: when the resolved filenames of the ordinals extract_all
\* processed are pairwise distinct, the destination (empty before) holds
\* exactly one file per processed ordinal, holding its resolved content; all
\* count ordinals are processed when extract_all returns.
C10_DistinctResolvedNames ==
    (/\ ret.op = "extract_all"
     /\ \A i, j \in 0..(ret.at - 1) : i # j => entries[i].filename # entries[j].filename) =>
        /\ Cardinality(DOMAIN ret.files) = ret.at
        /\ ret.kind = "done" => ret.at = Count(indices)
        /\ \A i \in 0..(ret.at - 1) :
              ret.files[JoinPath(entries[i].filename)] = entries[i].data

\* extract_all has just completed on two or more records, an extension
\* suffixed to one of them, the resolved filenames distinct
C10_Witness ==
    /\ ret.op = "extract_all"
    /\ ret.kind = "done"
    /\ Count(indices) >= 2
    /\ \E i \in DOMAIN entries : entries[i].extension # ""
    /\ \A i, j \in DOMAIN entries : i # j => entries[i].filename # entries[j].filename
    /\ Cardinality(DOMAIN ret.files) = Count(indices)

\* C11: on an index file of record count 0 the index table is empty and the
\* cache stays empty; extract_all returns without raising, has written no
\* file and has not opened the data file.
C11_EmptyIndex ==
    Count(indices) = 0 =>
        /\ indices = << >>
        /\ entries = << >>
        /\ ret.op = "extract_all" =>
              /\ ret.kind = "done"
              /\ ret.exc = ""
              /\ ret.at = 0
              /\ ret.writes = << >>
              /\ ret.files = << >>
              /\ ~ret.opened

\* extract_all has just returned on a container of no record
C11_Witness ==
    /\ Count(indices) = 0
    /\ ret.op = "extract_all"
    /\ ret.kind = "done"

\* C12: a cached ordinal stays cached over every step (read_entry of any
\* ordinal, returning or raising, extract_all, rename), and its content and
\* flags stay what they were.
C12_CacheGrowsOnly ==
    [][ \A o \in DOMAIN entries :
            /\ is_entry_loaded(entries', o)
            /\ entries'[o].data = entries[o].data
            /\ entries'[o].data_flags = entries[o].data_flags
      ]_vars

\* a cached ordinal has just been renamed, after a read_entry that raised
C12_Witness ==
    /\ ret.op = "rename"
    /\ is_entry_loaded(entries, ret.index)
    /\ entries[ret.index].filename = "n"
    /\ entries[ret.index].data # << >>
    /\ \E o \in DOMAIN loads : loads[o] > 0 /\ ~is_entry_loaded(entries, o)

\* the record or entry `a` and `b` agree on every field but the filename
SameButFilename(a, b) == [a EXCEPT !.filename = b.filename] = b

\* C14: a rename of ordinal o changes the filename of index record o and of
\* the cached entry of o, if there is one, and nothing else: the other fields
\* of o, the other ordinals, the set of cached ordinals and the load counts
\* are unchanged, and the call writes no file.
C14_RenameFrame ==
    [][ ret'.op = "rename" =>
            /\ DOMAIN indices' = DOMAIN indices
            /\ DOMAIN entries' = DOMAIN entries
            /\ loads' = loads
            /\ key' = key
            /\ \A p \in DOMAIN indices :
                  IF p = ret'.index
                  THEN SameButFilename(indices'[p], indices[p])
                  ELSE indices'[p] = indices[p]
            /\ \A p \in DOMAIN entries :
                  IF p = ret'.index
                  THEN SameButFilename(entries'[p], entries[p])
                  ELSE entries'[p] = entries[p]
            /\ ret'.writes = << >>
            /\ ret'.files = << >>
            /\ ~ret'.opened
      ]_vars

\* a cached ordinal has just been renamed while another ordinal is cached too
C14_Witness ==
    /\ ret.op = "rename"
    /\ indices[ret.index].filename = "n"
    /\ is_entry_loaded(entries, ret.index)
    /\ entries[ret.index].filename = "n"
    /\ entries[ret.index].extension # ""
    /\ \E p \in DOMAIN entries : p # ret.index /\ entries[p].filename # "n"

\* C20: no step changes the number of records of the index table, nor the
\* ordinals it is defined on.
C20_RecordCountFixed ==
    [][ Count(indices') = Count(indices) /\ DOMAIN indices' = DOMAIN indices ]_vars

\* a rename, after an extract_all, on a table of MaxCount records
C20_Witness ==
    /\ ret.op = "rename"
    /\ Count(indices) = MaxCount
    /\ indices[ret.index].filename = "n"
    /\ DOMAIN entries = DOMAIN indices

\* C13: once cancellation is requested and an aggregate operation (extract_all
\* or the background load) is between two ordinals, the operation takes up no
\* further ordinal: it resolves nothing more and writes nothing more, and what
\* it has resolved and written stays.
C13_CancelBetweenOrdinals ==
    [][ (cancelled /\ job.op # "none" /\ job.phase = "between") =>
            /\ job'.at = job.at \/ job'.op = "none"
            /\ job'.resolved = job.resolved \/ job'.op = "none"
            /\ entries' = entries
            /\ loads' = loads
            /\ ret'.writes = ret.writes
            /\ ret'.files = ret.files
      ]_vars

\* the ordinals whose current filename was given by the rename dialog
Renamed == { o \in DOMAIN indices : indices[o].filename \in NewNames \ {""} }

\* C15: once ordinal o has been renamed to n, the index record's filename is
\* n, the list model's get_filename of row o gives n, and the entry a later
\* read_entry(o) returns from the cache carries n, bare or with the dotted
\* extension appended -- also when o was being resolved during the rename.
C15_RenameVisible ==
    \A o \in Renamed :
        /\ GetFilenameCall(file_names_cache, indices, o, FALSE).filename
              = indices[o].filename
        /\ is_entry_loaded(entries, o) =>
              entries[o].filename \in
                 { indices[o].filename,
                   SuffixName([entries[o] EXCEPT !.filename = indices[o].filename]).filename }

\* C16: the sniffer's answer is one of index-type, data-type and unknown; it
\* is index-type exactly when the file has 4 bytes or more and starts with
\* I D X NUL, data-type exactly when it has 4 bytes or more and starts with
\* W P K NUL, and unknown otherwise, so for every file shorter than 4 bytes.
C16_SnifferByPrefix ==
    cli.parsed =>
        /\ cli.detected \in {"idx", "wpk", "none"}
        /\ cli.detected = "idx" <=>
              /\ Len(cli.files[cli.path]) >= 4
              /\ \A i \in 1..4 : cli.files[cli.path][i] = <<"I", "D", "X", "NUL">>[i]
        /\ cli.detected = "wpk" <=>
              /\ Len(cli.files[cli.path]) >= 4
              /\ \A i \in 1..4 : cli.files[cli.path][i] = <<"W", "P", "K", "NUL">>[i]
        /\ Len(cli.files[cli.path]) < 4 => cli.detected = "none"

\* the 3-byte file I D X has just been sniffed as unknown
C16_Witness ==
    /\ cli.parsed
    /\ cli.files[cli.path] = <<"I", "D", "X">>
    /\ cli.detected = "none"

\* C17: when a second path is given and the first path names a data-type file
\* and the second an index-type file, the container is opened on the second
\* path as its index path and the first as its data path.
C17_ReversedPairSwapped ==
    (/\ cli.parsed
     /\ cli.wpk_path # NoPath
     /\ {cli.path, cli.wpk_path} \subseteq DOMAIN cli.files
     /\ detect_file_type(cli.files, cli.path) = "wpk"
     /\ detect_file_type(cli.files, cli.wpk_path) = "idx") =>
        /\ ~cli.raised
        /\ cli.idx_path = cli.wpk_path
        /\ cli.data_path = cli.path

\* C18: with a single path, a data-type file becomes the data path and the
\* index path is the path with its extension replaced by .idx; an index-type
\* file stays the index path and the data path is the path with its extension
\* replaced by .wpk.  Both are functions of the supplied path alone.
C18_SiblingByExtension ==
    (cli.parsed /\ cli.wpk_path = NoPath /\ cli.path \in DOMAIN cli.files) =>
        /\ detect_file_type(cli.files, cli.path) = "wpk" =>
              /\ ~cli.raised
              /\ cli.data_path = cli.path
              /\ cli.idx_path = ReplaceExt(cli.path, "idx")
        /\ detect_file_type(cli.files, cli.path) = "idx" =>
              /\ ~cli.raised
              /\ cli.idx_path = cli.path
              /\ cli.data_path = ReplaceExt(cli.path, "wpk")

\* the single path d/a.b.x, a data-type file, has given the sibling
\* d/a.b.idx, itself a file that sniffs as data-type
C18_Witness ==
    /\ cli.parsed
    /\ cli.wpk_path = NoPath
    /\ cli.path = <<"d", "/", "a", ".", "b", ".", "x">>
    /\ cli.path \in DOMAIN cli.files
    /\ detect_file_type(cli.files, cli.path) = "wpk"
    /\ cli.idx_path = <<"d", "/", "a", ".", "b", ".", "idx">>
    /\ cli.data_path = cli.path
    /\ cli.idx_path \in DOMAIN cli.files
    /\ detect_file_type(cli.files, cli.idx_path) = "wpk"

\* the bytes of the data file in the window of the record or entry `rec`
Window(rec) == SubSeq(WpkData, rec.file_offset + 1, rec.file_offset + rec.file_length)

\* the record or entry is stored plain: not compressed, not encrypted, its
\* window inside the data file and without a rotor or nxs3 signature
PlainRecord(rec) ==
    /\ rec.zip_flag = "NONE"
    /\ rec.encrypt_flag = "NONE"
    /\ rec.file_offset + rec.file_length <= Len(WpkData)
    /\ ~check_rotor(Window(rec))
    /\ ~check_nxs3(Window(rec))

\* C19: the entry read_entry returns and caches for a plain record holds
\* exactly the file_length bytes of the data file from file_offset on, with
\* neither ERROR nor ENCRYPTED set.
C19_PlainRecordContent ==
    /\ \A o \in DOMAIN entries :
          PlainRecord(indices[o]) =>
             /\ Len(entries[o].data) = indices[o].file_length
             /\ \A i \in 1..indices[o].file_length :
                   entries[o].data[i] = WpkData[indices[o].file_offset + i]
             /\ entries[o].data_flags \cap FailureBits = {}
    /\ (/\ ret.op = "read_entry"
        /\ ret.kind = "entry"
        /\ ValidOrdinal(indices, ret.index)
        /\ PlainRecord(indices[ret.index])) =>
             /\ Len(ret.entry.data) = indices[ret.index].file_length
             /\ \A i \in 1..indices[ret.index].file_length :
                   ret.entry.data[i] = WpkData[indices[ret.index].file_offset + i]
             /\ ret.entry.data_flags \cap FailureBits = {}

\* read_entry has just resolved a plain record of one byte or more
C19_Witness ==
    /\ ret.op = "read_entry"
    /\ ret.kind = "entry"
    /\ ret.loaded
    /\ ValidOrdinal(indices, ret.index)
    /\ PlainRecord(indices[ret.index])
    /\ indices[ret.index].file_offset > 0
    /\ ret.entry.data # << >>
    /\ ret.stages = <<"read", "check_rotor", "check_nxs3", "is_binary", "get_ext",
                      "get_file_category">>

----------------------------------------------------------------------------
\* the stages that follow primary decompression
LaterStages ==
    {"check_rotor", "unpack_rotor", "check_nxs3", "unpack_nxs3",
     "is_binary", "get_ext", "get_file_category"}

\* the bytes of a record as they stand just before primary decompression:
\* the raw slice, decrypted when the record carries an encryption tag
BeforeDecompression(rec) ==
    IF rec.encrypt_flag # "NONE"
    THEN decrypt_entry(FileRead(WpkData, rec.file_offset, rec.file_length), key)
    ELSE FileRead(WpkData, rec.file_offset, rec.file_length)

\* the entry shows that the pipeline stopped at the primary decompression
StoppedAtDecompression(entry, rec) ==
    /\ entry.data_flags \cap {"ROTOR_PACKED", "NXS3_PACKED", "TEXT"} = {}
    /\ entry.extension = ""
    /\ entry.category = NewEntry.category
    /\ entry.filename = rec.filename
    /\ entry.data = BeforeDecompression(rec)

\* C21: when primary decompression fails the pipeline stops at once: no rotor
\* check, nxs3 check or classification is called for the entry, which has none
\* of ROTOR_PACKED, NXS3_PACKED, TEXT, an empty extension, the default
\* category, the filename of its record without a suffix, and as content the
\* bytes as they were just before decompression (decrypted if decryption ran,
\* otherwise the raw slice); the cached entry is that same entry.
C21_DecompressFailureStops ==
    /\ (/\ ret.op = "read_entry"
        /\ ret.loaded
        /\ ret.failed = "decompress_entry")
       => /\ ret.kind = "entry"
          /\ {ret.stages[i] : i \in DOMAIN ret.stages} \cap LaterStages = {}
          /\ ret.stages[Len(ret.stages)] = "decompress_entry"
          /\ ret.entry.data_flags \cap FailureBits # {}
          /\ StoppedAtDecompression(ret.entry, indices[ret.index])
          /\ entries[ret.index] = ret.entry
    /\ \A o \in DOMAIN entries :
          entries[o].data_flags \cap FailureBits # {}
             => StoppedAtDecompression(entries[o], indices[o])

\* an encrypted record whose decrypted bytes, which differ from the raw
\* slice, failed to decompress
C21_Witness ==
    /\ ret.op = "read_entry"
    /\ ret.loaded
    /\ ret.failed = "decompress_entry"
    /\ ret.entry.encrypt_flag # "NONE"
    /\ ret.entry.data # << >>
    /\ ret.entry.data # FileRead(WpkData, ret.entry.file_offset, ret.entry.file_length)
    /\ check_nxs3(ret.entry.data)

----------------------------------------------------------------------------
\* the position of each primitive in the order of _load_entry_data
StageOrder ==
    <<"read", "decrypt_entry", "decompress_entry", "check_rotor", "unpack_rotor",
      "check_nxs3", "unpack_nxs3", "is_binary", "get_ext", "get_file_category">>

StageRank(stage) == CHOOSE r \in DOMAIN StageOrder : StageOrder[r] = stage

\* the bytes of a record that decompressed, as the rotor check sees them
BeforeRotor(rec) ==
    IF rec.zip_flag # "NONE"
    THEN decompress_entry(BeforeDecompression(rec))
    ELSE BeforeDecompression(rec)

\* C22: for every valid ordinal the stages run in the fixed order raw slice,
\* decryption (only with an encryption tag), primary decompression (only with
\* a compression tag), rotor check and unpack, nxs3 check and unpack,
\* classification; no stage is called before an earlier one, the nxs3 check
\* inspects the bytes the rotor unpack produced, and a payload matching both
\* signatures ends with both ROTOR_PACKED and NXS3_PACKED set.
C22_StageOrder ==
    (ret.op = "read_entry" /\ ret.loaded) =>
       LET called == {ret.stages[i] : i \in DOMAIN ret.stages}
           rec == indices[ret.index]
       IN  /\ called \subseteq {StageOrder[r] : r \in DOMAIN StageOrder}
           /\ ret.stages[1] = "read"
           /\ \A i, j \in DOMAIN ret.stages :
                 i < j => StageRank(ret.stages[i]) < StageRank(ret.stages[j])
           /\ "decrypt_entry" \in called <=> rec.encrypt_flag # "NONE"
           /\ "decompress_entry" \in called
                 <=> (rec.zip_flag # "NONE" /\ ret.failed # "decrypt_entry")
           /\ ret.failed = "" =>
                 /\ {"check_rotor", "check_nxs3", "is_binary", "get_ext",
                     "get_file_category"} \subseteq called
                 /\ "unpack_rotor" \in called <=> check_rotor(BeforeRotor(rec))
                 /\ "ROTOR_PACKED" \in ret.entry.data_flags <=> "unpack_rotor" \in called
                 /\ "unpack_nxs3" \in called <=>
                       check_nxs3(IF check_rotor(BeforeRotor(rec))
                                  THEN unpack_rotor(BeforeRotor(rec))
                                  ELSE BeforeRotor(rec))
                 /\ "NXS3_PACKED" \in ret.entry.data_flags <=> "unpack_nxs3" \in called
                 /\ (/\ check_rotor(BeforeRotor(rec))
                     /\ check_nxs3(unpack_rotor(BeforeRotor(rec))))
                    => /\ {"ROTOR_PACKED", "NXS3_PACKED"} \subseteq ret.entry.data_flags
                       /\ ret.entry.data = unpack_nxs3(unpack_rotor(BeforeRotor(rec)))

\* a compressed payload that carried both secondary layers, the nxs3 signature
\* visible only after the rotor unpack
C22_Witness ==
    /\ ret.op = "read_entry"
    /\ ret.loaded
    /\ ret.failed = ""
    /\ ret.stages = <<"read", "decompress_entry", "check_rotor", "unpack_rotor",
                      "check_nxs3", "unpack_nxs3", "is_binary", "get_ext",
                      "get_file_category">>
    /\ {"ROTOR_PACKED", "NXS3_PACKED"} \subseteq ret.entry.data_flags
    /\ ~check_nxs3(BeforeRotor(indices[ret.index]))

----------------------------------------------------------------------------
\* C23: read_entry leaves the index table unchanged: after resolving an
\* ordinal every field of every index record, the filename of the resolved
\* record included, is as before, also when an extension was derived and
\* appended to the filename of the resolved entry.
C23_IndexTableUnchanged ==
    [][ ret'.op \in {"read_entry", "extract_all"} => indices' = indices ]_vars

\* a resolution that derived an extension: the entry returned and cached
\* carries the suffixed filename, the index record the unsuffixed one
C23_Witness ==
    /\ ret.op = "read_entry"
    /\ ret.loaded
    /\ ret.kind = "entry"
    /\ ret.entry.extension # ""
    /\ entries[ret.index].filename = ret.entry.filename
    /\ ret.entry.filename # indices[ret.index].filename
    /\ ret.entry.filename = SuffixName(
          [NewEntry EXCEPT !.filename = indices[ret.index].filename,
                           !.extension = ret.entry.extension]).filename

----------------------------------------------------------------------------
\* C24: the handle of the data file is open only inside a read_entry call for
\* a valid, uncached ordinal: constructing the container opens no data file,
\* a call that opened one was for a valid ordinal absent from the cache, and
\* after every call, returned or raised, no handle is left open.
C24_HandleClosedAfterCall ==
    [][ /\ ret.op = "open" => (~ret.opened /\ ret.handle = "none")
        /\ ret'.handle # "open"
        /\ ret'.op = "read_entry" =>
              /\ ret'.opened <=> ret'.handle = "closed"
              /\ ret'.opened =>
                    /\ ValidOrdinal(indices, ret'.index)
                    /\ ~is_entry_loaded(entries, ret'.index)
        /\ ret'.op = "extract_all" =>
              /\ ret'.opened <=> ret'.handle = "closed"
              /\ ret'.opened => \E o \in DOMAIN indices : ~is_entry_loaded(entries, o)
      ]_vars

\* a read_entry that opened the data file and was left by the exception of
\* the decryption primitive, the handle closed all the same
C24_Witness ==
    /\ ret.op = "read_entry"
    /\ ret.kind = "raise"
    /\ ret.failed = "decrypt_entry"
    /\ ret.opened
    /\ ret.handle = "closed"

----------------------------------------------------------------------------
\* C25: successful decryption sets no flag: an entry resolved for a valid
\* ordinal has ENCRYPTED or ERROR set only if its compression tag is not NONE
\* and the decompress primitive failed for it; an entry with an encryption
\* tag that decrypted and decompressed successfully has neither bit.
C25_NoFlagForDecryption ==
    /\ (ret.op = "read_entry" /\ ret.loaded /\ ret.kind = "entry") =>
          /\ ret.entry.data_flags \cap FailureBits # {}
                => /\ ret.entry.zip_flag # "NONE"
                   /\ ret.failed = "decompress_entry"
                   /\ DecompressFails(BeforeDecompression(indices[ret.index]))
          /\ (ret.entry.encrypt_flag # "NONE" /\ ret.failed = "")
                => ret.entry.data_flags \cap FailureBits = {}
    /\ \A o \in DOMAIN entries :
          entries[o].data_flags \cap FailureBits # {}
             => /\ indices[o].zip_flag # "NONE"
                /\ DecompressFails(BeforeDecompression(indices[o]))

\* an encrypted, compressed record that decrypted and decompressed
C25_Witness ==
    /\ ret.op = "read_entry"
    /\ ret.loaded
    /\ ret.kind = "entry"
    /\ ret.failed = ""
    /\ ret.entry.encrypt_flag # "NONE"
    /\ ret.entry.zip_flag # "NONE"
    /\ ret.stages[2] = "decrypt_entry"
    /\ ret.stages[3] = "decompress_entry"
    /\ ret.entry.data_flags \cap FailureBits = {}
    /\ entries[ret.index] = ret.entry

----------------------------------------------------------------------------
\* the ordinals extract_all processed whose resolved filename gives path p
Colliding(p) == {o \in 0..(ret.at - 1) : JoinPath(entries[o].filename) = p}

Highest(S) == CHOOSE o \in S : \A q \in S : q <= o

\* C26: when ordinals processed by extract_all resolve to the same filename,
\* the file of that path holds the content of the highest of them (last write
\* wins); the overwrite raises nothing: extract_all stops only at an ordinal
\* whose resolution raised.
C26_LastWriteWins ==
    ret.op = "extract_all" =>
       /\ \A p \in DOMAIN ret.files :
             /\ Colliding(p) # {}
             /\ ret.files[p] = entries[Highest(Colliding(p))].data
       /\ \A o \in 0..(ret.at - 1) : JoinPath(entries[o].filename) \in DOMAIN ret.files
       /\ ret.kind = "raise" =>
             /\ ret.at < Count(indices)
             /\ ~is_entry_loaded(entries, ret.at)
       /\ ret.kind = "done" => ret.at = Count(indices)

\* a completed extract_all in which two ordinals resolved to one filename
\* with different contents, the file holding the later one
C26_Witness ==
    /\ ret.op = "extract_all"
    /\ ret.kind = "done"
    /\ \E p \in DOMAIN ret.files :
          \E i, j \in Colliding(p) :
             /\ i < j
             /\ entries[i].data # entries[j].data
             /\ indices[i].filename # indices[j].filename
             /\ ret.files[p] = entries[j].data

----------------------------------------------------------------------------
\* the entry of a record once the whole pipeline and the filename suffixing
\* have run on it
FullyResolved(rec) == SuffixName(LoadEntryData(CopyIndex(rec), key, WpkData).entry)

\* C27: whenever is_entry_loaded(o) is true for a reader running next to a
\* resolve, the cached entry of o is fully resolved: content, flags,
\* extension, category and suffixed filename are final, and the entry the
\* reader takes from the cache is that entry; an entry enters the cache only
\* after the pipeline and the suffixing have finished.
C27_CachedIsFinal ==
    [][ /\ \A o \in DOMAIN entries' :
              /\ ValidOrdinal(indices, o)
              /\ ~LoadEntryData(CopyIndex(indices[o]), key, WpkData).raised
              /\ entries'[o] = FullyResolved(indices[o])
              /\ ~is_entry_loaded(entries, o) =>
                    \E t \in Threads : pc[t] = "store" /\ targ[t] = o
        /\ (ret'.op = "data" /\ ret'.kind = "entry" /\ ret' # ret) =>
              /\ is_entry_loaded(entries, ret'.index)
              /\ ~ret'.loaded
              /\ ret'.entry = FullyResolved(indices[ret'.index])
      ]_vars

\* the reader took a resolved entry, its filename suffixed, from the cache
\* while the worker is inside the resolve of another ordinal
C27_Witness ==
    /\ ret.op = "data"
    /\ ~ret.loaded
    /\ ret.kind = "entry"
    /\ is_entry_loaded(entries, ret.index)
    /\ ret.entry.extension # ""
    /\ ret.entry.filename # indices[ret.index].filename
    /\ pc[Worker] \in {"load", "store"}
    /\ targ[Worker] # ret.index
    /\ ~is_entry_loaded(entries, targ[Worker])

----------------------------------------------------------------------------
\* some record of the index file carries a tag outside its enumeration
HasUnknownTag(file) ==
    \E i \in 1..file.count :
        \/ file.records[i].zip_flag \notin DOMAIN CompressionTypeValues
        \/ file.records[i].encrypt_flag \notin DOMAIN DecryptionTypeValues

\* C28: if any record of the index file carries a compression or encryption
\* tag outside the known enumeration, construction fails: the constructor
\* raises, no container is produced and no entry is ever resolved from the
\* partially filled table.  A constructor that returns has built the whole
\* table, one record per record of the file.
C28_UnknownTagFailsConstruction ==
    /\ HasUnknownTag(idx_file) =>
          /\ ret.op \in {"new", "open"}
          /\ ret.op = "open" => (ret.kind = "raise" /\ ret.exc = "ValueError")
          /\ ~Usable
          /\ entries = << >>
    /\ Usable =>
          /\ ~HasUnknownTag(idx_file)
          /\ Count(indices) = idx_file.count
          /\ \A i \in 1..idx_file.count :
                /\ idx_file.records[i] = RawRecord(indices[i - 1].filename, indices[i - 1])
                /\ indices[i - 1].file_original_length
                      = idx_file.records[i].file_original_length

\* the constructor raised at the second record, after the first one had been
\* put into the table
C28_Witness ==
    /\ ret.op = "open"
    /\ ret.kind = "raise"
    /\ HasUnknownTag(idx_file)
    /\ idx_file.count >= 2
    /\ ret.at = 1
    /\ Count(indices) = 1

----------------------------------------------------------------------------
\* C30: if the resolution of ordinal k raises during extract_all, extract_all
\* stops there and rolls nothing back: exactly the ordinals 0..k-1 have been
\* written, in that order, and are cached; ordinal k is not cached, and no
\* ordinal from k on has been written or cached by this call.
C30_StopsAtRaise ==
    [][ (ret'.op = "extract_all" /\ ret'.kind = "raise") =>
            /\ ret'.at < Count(indices)
            /\ Len(ret'.writes) = ret'.at
            /\ \A j \in 1..Len(ret'.writes) :
                  /\ ret'.writes[j].ordinal = j - 1
                  /\ ret'.writes[j].path \in DOMAIN ret'.files
            /\ \A o \in 0..(ret'.at - 1) :
                  /\ is_entry_loaded(entries', o)
                  /\ JoinPath(entries'[o].filename) \in DOMAIN ret'.files
            /\ \A p \in DOMAIN ret'.files :
                  \E o \in 0..(ret'.at - 1) : p = JoinPath(entries'[o].filename)
            /\ ~is_entry_loaded(entries', ret'.at)
            /\ \A o \in DOMAIN entries' :
                  o >= ret'.at => (is_entry_loaded(entries, o) /\ entries'[o] = entries[o])
            /\ \A o \in DOMAIN entries :
                  is_entry_loaded(entries', o) /\ entries'[o] = entries[o]
      ]_vars

\* extract_all raised at an ordinal after the first, with the data file
\* unreadable for it: the earlier ordinal is written and cached
C30_Witness ==
    /\ ret.op = "extract_all"
    /\ ret.kind = "raise"
    /\ ret.exc = "OSError"
    /\ ret.at >= 1
    /\ ret.at < Count(indices)
    /\ Len(ret.writes) = ret.at
    /\ is_entry_loaded(entries, 0)
    /\ ~is_entry_loaded(entries, ret.at)

----------------------------------------------------------------------------
----------------------------------------------------------------------------
\* C31: in single-threaded use the filename of every cached entry is the
\* current filename of its index record, bare or followed by "." and the
\* entry's non-empty extension, after any interleaving of read_entry,
\* extract_all and the rename dialog: a rename before the resolve gives
\* name.ext, a rename after it the bare new name in both places.
C31_CachedNameFollowsRecord ==
    [][ /\ \A o \in DOMAIN entries' :
              \/ entries'[o].filename = indices'[o].filename
              \/ /\ entries'[o].extension # ""
                 /\ entries'[o].filename
                       = indices'[o].filename \o "." \o entries'[o].extension
        /\ \A o \in DOMAIN entries' \ DOMAIN entries :
              entries'[o].filename
                 = SuffixName([entries'[o] EXCEPT !.filename = indices[o].filename]).filename
        /\ \A o \in DOMAIN entries :
              indices'[o].filename # indices[o].filename =>
                 entries'[o].filename = indices'[o].filename
      ]_vars

\* an entry with an extension renamed after it was resolved: the record and
\* the cached entry both carry the bare new name
C31_Witness ==
    /\ ret.op = "rename"
    /\ is_entry_loaded(entries, ret.index)
    /\ entries[ret.index].extension # ""
    /\ indices[ret.index].filename \in NewNames \ {""}
    /\ entries[ret.index].filename = indices[ret.index].filename

----------------------------------------------------------------------------
\* C32: reading display data from the list model never resolves an entry:
\* data() for any row and role leaves the entry cache and the load counts
\* unchanged and opens no file; for a row not yet resolved it returns the
\* plain filename and the loading icon; for a cached row it consults the
\* entry's flags, ERROR shown in preference to ENCRYPTED.
C32_DataResolvesNothing ==
    [][ (ret'.op = "data" /\ pc' = pc) =>
           /\ entries' = entries
           /\ loads' = loads
           /\ ~ret'.loaded
           /\ ~ret'.opened
           /\ ~ValidOrdinal(indices, ret'.index) => ret'.value = NoValue
           /\ (ValidOrdinal(indices, ret'.index) /\ ret'.role = "DisplayRole") =>
                 ret'.value.text =
                    IF ~is_entry_loaded(entries, ret'.index)
                    THEN indices[ret'.index].filename
                    ELSE IF "ERROR" \in entries[ret'.index].data_flags
                    THEN indices[ret'.index].filename \o " (Error)"
                    ELSE IF "ENCRYPTED" \in entries[ret'.index].data_flags
                    THEN indices[ret'.index].filename \o " (Encrypted)"
                    ELSE indices[ret'.index].filename
           /\ (ValidOrdinal(indices, ret'.index) /\ ret'.role = "DecorationRole") =>
                 ret'.value.icon =
                    IF ~is_entry_loaded(entries, ret'.index) THEN "loading"
                    ELSE IF "ERROR" \in entries[ret'.index].data_flags THEN "errored"
                    ELSE IF "ENCRYPTED" \in entries[ret'.index].data_flags THEN "encrypted"
                    ELSE "file"
           /\ DisplayText("f", {"ERROR", "ENCRYPTED"}) = "f (Error)"
           /\ DecorationIcon({"ERROR", "ENCRYPTED"}) = "errored"
      ]_vars

\* the model was asked for the text of a row not yet resolved, which the
\* worker is resolving, while another row is cached with a failure flag
C32_Witness ==
    /\ ret.op = "data"
    /\ ret.role = "DisplayRole"
    /\ ValidOrdinal(indices, ret.index)
    /\ ~is_entry_loaded(entries, ret.index)
    /\ ret.value.text = indices[ret.index].filename
    /\ pc[Worker] = "store"
    /\ targ[Worker] = ret.index
    /\ \E o \in DOMAIN entries : entries[o].data_flags \cap FailureBits # {}

====
